---- MODULE Spec2Model ----
(***************************************************************************)
(* Failing-forward expense server (02-failing-forward/code) and the        *)
(* workflow sandbox (03-intelligence-budget/code): the tool handlers as    *)
(* operators on their arguments and the ledger, and the callers that       *)
(* drive them.                                                             *)
(*                                                                         *)
(* Conventions.  A Python Optional[str] is a string, None being the value  *)
(* None below; "" is the empty string, falsy like None.  A date argument   *)
(* is [ok, day]: ok says whether the text parses as %Y-%m-%d, day is the   *)
(* calendar day it names, counted in days.  A late_reason is a sequence of *)
(* characters.  A response is the dictionary ToolResult.to_dict builds; a  *)
(* key the dictionary lacks holds None here.                               *)
(***************************************************************************)
EXTENDS Integers, Sequences, FiniteSets, TLC

VARIABLES database, last, pre, sess, nCalls, caller, wf, scope, agent, srv

vars == <<database, last, pre, sess, nCalls, caller, wf, scope, agent, srv>>

----------------------------------------------------------------------------
(* Bounds of the model *)

\* The calendar day "today" (datetime.now() truncated to midnight).
Today == 1000
\* Tool calls made in one session of arbitrary calls.
MaxCalls == 2
\* Tool calls a contract-following caller makes before it gives up.
MaxFollowCalls == 6
\* Statements of a workflow script before its return statement.
MaxScriptLen == 2
\* Seconds of wall-clock time one step of the clock adds.
TickSeconds == 30
\* Seconds after which the clock of a workflow run is no longer followed.
MaxElapsed == 120
\* Longest chain of operations in one expression of a script.
MaxDepth == 7
\* Calls made to one server of 03-intelligence-budget in a run.
MaxServerCalls == 2
\* Operations one decision of the language model names at most.
MaxOps == 2

----------------------------------------------------------------------------
(* Python values *)

None == "<None>"

\* bool(v) of an Optional[str]: None and "" are falsy.
Truthy(v) == v # None /\ v # ""

EmptyDict == [k \in {} |-> None]

Get(d, k) == IF k \in DOMAIN d THEN d[k] ELSE None

\* {**old, **new}
Merge(new, old) ==
    [k \in DOMAIN new \cup DOMAIN old |-> IF k \in DOMAIN new THEN new[k] ELSE old[k]]

Restrict(d, keys) == [k \in DOMAIN d \cap keys |-> d[k]]

Rep(c, n) == [i \in 1..n |-> c]

IsSpace(c) == c = " "

RECURSIVE LStrip(_)
LStrip(s) == IF s # <<>> /\ IsSpace(Head(s)) THEN LStrip(Tail(s)) ELSE s

RECURSIVE RStrip(_)
RStrip(s) ==
    IF s # <<>> /\ IsSpace(s[Len(s)]) THEN RStrip(SubSeq(s, 1, Len(s) - 1)) ELSE s

\* str.strip(): leading and trailing whitespace removed; inner whitespace stays.
StripIdentity(s) == s
Strip(s) == RStrip(LStrip(s))

\* str.lower() on the category texts the callers use.
Lower(c) ==
    CASE c = "Travel" -> "travel"
      [] c = "MEALS" -> "meals"
      [] OTHER -> c

\* s[:3] on the category texts the callers use and on VALID_CATEGORIES.
Prefix3(s) ==
    CASE s = "meals" -> "mea"
      [] s = "meal" -> "mea"
      [] s = "travel" -> "tra"
      [] s = "supplies" -> "sup"
      [] s = "software" -> "sof"
      [] s = "equipment" -> "equ"
      [] s = "food" -> "foo"
      [] OTHER -> s

----------------------------------------------------------------------------
(* expense_server.py: constants *)

VALID_CATEGORIES == <<"meals", "travel", "supplies", "software", "equipment">>
RECEIPT_THRESHOLD == 25
APPROVAL_THRESHOLD == 100
LATE_EXPENSE_DAYS == 90
MIN_REASON_LEN == 10

VALID_TYPES == <<"image/jpeg", "image/png", "application/pdf">>

InList(x, list) == \E i \in DOMAIN list : list[i] = x

----------------------------------------------------------------------------
(* expense_server.py: MockDatabase *)

ExpenseId(n) == "exp_" \o ToString(n)
ReceiptId(n) == "rcpt_" \o ToString(n)
ApprovalId(n) == "apr_" \o ToString(n)
ReceiptUrl(id) == "https://storage.example.com/receipts/" \o id \o ".jpg"

MockDatabase ==
    [expenses |-> <<>>, receipts |-> <<>>, approvals |-> <<>>,
     expense_counter |-> 1, receipt_counter |-> 1, approval_counter |-> 1]

\* self.expenses[expense_id] = expense: a dict keeps insertion order, and a new
\* key is a new entry.  The sequences below are the dicts' values in that order.
create_expense(db, amount, category, description, date, receipt_url) ==
    LET expense == [id |-> ExpenseId(db.expense_counter), amount |-> amount,
                    category |-> category, description |-> description,
                    date |-> date, receipt_url |-> receipt_url,
                    status |-> "pending_approval"]
    IN [db |-> [db EXCEPT !.expense_counter = @ + 1,
                          !.expenses = Append(@, expense)],
        made |-> expense]

create_receipt(db, expense_amount) ==
    LET rid == ReceiptId(db.receipt_counter)
        receipt == [id |-> rid, url |-> ReceiptUrl(rid), expense_amount |-> expense_amount]
    IN [db |-> [db EXCEPT !.receipt_counter = @ + 1,
                          !.receipts = Append(@, receipt)],
        made |-> receipt]

create_approval(db, approval_type) ==
    LET approval == [id |-> ApprovalId(db.approval_counter), type |-> approval_type,
                     status |-> "pending",
                     approver |-> IF approval_type = "late_expense"
                                  THEN "finance-manager@company.com"
                                  ELSE "manager@company.com"]
    IN [db |-> [db EXCEPT !.approval_counter = @ + 1,
                          !.approvals = Append(@, approval)],
        made |-> approval]

----------------------------------------------------------------------------
(* expense_server.py: ToolResult.to_dict and tool_response *)

\* to_dict keeps a key only when its value is truthy; extra is merged in last.
ToolResult(status, error, next_action, next_action_params, alternative_actions, hint, extra) ==
    [status |-> status,
     error |-> error,
     next_action |-> next_action,
     next_action_params |-> next_action_params,
     alternative_actions |-> alternative_actions,
     hint |-> hint,
     extra |-> extra]

NoResponse == ToolResult(None, None, None, EmptyDict, <<>>, FALSE, EmptyDict)

\* What a handler does: it returns the response (raised = FALSE) or lets an
\* exception escape (raised = TRUE), and leaves the ledger as db.
Returned(resp, db) == [raised |-> FALSE, resp |-> resp, db |-> db]
Raised(db) == [raised |-> TRUE, resp |-> NoResponse, db |-> db]

----------------------------------------------------------------------------
(* expense_server.py: submit_expense *)

AmountInvalidStrict(amount) == amount < 0
AmountInvalid(amount) == amount <= 0

IsFutureOrToday(expense_date, today) == expense_date >= today
IsFuture(expense_date, today) == expense_date > today

DaysSince(expense_date, today) == today - expense_date

IsLateOffByOne(days_since_expense, approval_id) ==
    days_since_expense > LATE_EXPENSE_DAYS + 1 /\ ~Truthy(approval_id)
IsLate(days_since_expense, approval_id) ==
    days_since_expense > LATE_EXPENSE_DAYS /\ ~Truthy(approval_id)

CategoryValid(category) == InList(Lower(category), VALID_CATEGORIES)

\* The list comprehension of the invalid-category branch, in list order.  Every
\* category text used here has three characters or more, so both startswith
\* tests compare the first three characters.
Suggestions(category) ==
    SelectSeq(VALID_CATEGORIES,
              LAMBDA c : Prefix3(c) = Prefix3(Lower(category)))

NeedsReceiptIgnoringUrl(amount, receipt_url) == amount > RECEIPT_THRESHOLD
\* the receipt asked for only once the amount needs no approval
NeedsReceiptBelowApproval(amount, receipt_url) ==
    amount > RECEIPT_THRESHOLD /\ amount <= APPROVAL_THRESHOLD /\ ~Truthy(receipt_url)
NeedsReceipt(amount, receipt_url) ==
    amount > RECEIPT_THRESHOLD /\ ~Truthy(receipt_url)

NeedsApprovalAtThreshold(amount, approval_id) ==
    amount >= APPROVAL_THRESHOLD /\ ~Truthy(approval_id)
NeedsApproval(amount, approval_id) ==
    amount > APPROVAL_THRESHOLD /\ ~Truthy(approval_id)

submit_expense(db, today, amount, category, description, date, receipt_url, approval_id) ==
    IF AmountInvalid(amount) THEN
        Returned(ToolResult("failed", "invalid_amount", "resubmit", EmptyDict, <<>>,
                            TRUE, EmptyDict), db)
    ELSE IF ~date.ok THEN
        \* datetime.strptime raises ValueError; nothing catches it
        Raised(db)
    ELSE IF IsFuture(date.day, today) THEN
        Returned(ToolResult("failed", "future_date", "resubmit",
                            [suggested_date |-> [ok |-> TRUE, day |-> today]], <<>>,
                            TRUE, EmptyDict), db)
    ELSE IF IsLate(DaysSince(date.day, today), approval_id) THEN
        Returned(ToolResult("needs_action", "late_expense",
                            "request_late_expense_approval",
                            [expense_date |-> date,
                             days_late |-> DaysSince(date.day, today) - LATE_EXPENSE_DAYS,
                             amount |-> amount,
                             category |-> category,
                             description |-> description,
                             reason_required |-> TRUE],
                            <<[action |-> "request_late_expense_approval",
                               params |-> [expense_date |-> date,
                                           days_late |-> DaysSince(date.day, today)
                                                           - LATE_EXPENSE_DAYS]],
                              [action |-> "cancel", params |-> EmptyDict]>>,
                            TRUE, EmptyDict), db)
    ELSE IF ~CategoryValid(category) THEN
        LET suggestions == Suggestions(category)
            best == IF suggestions # <<>> THEN suggestions[1] ELSE None
        IN Returned(ToolResult("failed", "invalid_category", "resubmit",
                               [amount |-> amount,
                                description |-> description,
                                date |-> date,
                                receipt_url |-> receipt_url,
                                category |-> best],
                               <<>>, TRUE,
                               [valid_options |-> VALID_CATEGORIES,
                                suggested_category |-> best]), db)
    ELSE IF NeedsReceipt(amount, receipt_url) THEN
        Returned(ToolResult("needs_action", "receipt_required", "upload_receipt",
                            [expense_amount |-> amount,
                             expense_category |-> Lower(category),
                             expense_description |-> description,
                             expense_date |-> date,
                             supported_formats |-> VALID_TYPES,
                             max_size_mb |-> 10],
                            <<>>, TRUE, EmptyDict), db)
    ELSE IF NeedsApproval(amount, approval_id) THEN
        Returned(ToolResult("needs_action", "approval_required",
                            "request_expense_approval",
                            [amount |-> amount,
                             category |-> Lower(category),
                             description |-> description,
                             date |-> date,
                             receipt_url |-> receipt_url],
                            <<>>, TRUE, EmptyDict), db)
    ELSE
        LET c == create_expense(db, amount, Lower(category), description, date,
                                receipt_url)
        IN Returned(ToolResult("success", None, None, EmptyDict, <<>>, FALSE,
                               [expense_id |-> c.made.id,
                                current_status |-> c.made.status]), c.db)

----------------------------------------------------------------------------
(* expense_server.py: upload_receipt *)

upload_receipt(db, expense_amount, file_data, file_type) ==
    IF Truthy(file_type) /\ ~InList(file_type, VALID_TYPES) THEN
        Returned(ToolResult("failed", "invalid_file_type", "upload_receipt", EmptyDict,
                            <<>>, TRUE, [valid_types |-> VALID_TYPES]), db)
    ELSE
        LET c == create_receipt(db, expense_amount)
        IN Returned(ToolResult("success", None, "submit_expense",
                               [receipt_url |-> c.made.url], <<>>, TRUE,
                               [receipt_id |-> c.made.id,
                                receipt_url |-> c.made.url]), c.db)

----------------------------------------------------------------------------
(* expense_server.py: request_expense_approval *)

request_expense_approval(db, amount, category, description, date, receipt_url) ==
    LET c == create_approval(db, "large_expense")
    IN Returned(ToolResult("success", None, "submit_expense",
                           [amount |-> amount,
                            category |-> category,
                            description |-> description,
                            date |-> date,
                            receipt_url |-> receipt_url,
                            approval_id |-> c.made.id],
                           <<>>, TRUE,
                           [approval_id |-> c.made.id,
                            approval_status |-> "approved",
                            approver |-> c.made.approver]), c.db)

----------------------------------------------------------------------------
(* expense_server.py: request_late_expense_approval *)

ReasonMissingUntrimmed(late_reason) ==
    late_reason = <<>> \/ Len(StripIdentity(late_reason)) < MIN_REASON_LEN
\* not late_reason or len(late_reason.strip()) < 10
ReasonMissing(late_reason) ==
    late_reason = <<>> \/ Len(Strip(late_reason)) < MIN_REASON_LEN

request_late_expense_approval(db, expense_date, days_late, amount, category, description, late_reason) ==
    IF ReasonMissing(late_reason) THEN
        Returned(ToolResult("failed", "reason_required",
                            "request_late_expense_approval",
                            [expense_date |-> expense_date,
                             days_late |-> days_late,
                             amount |-> amount,
                             category |-> category,
                             description |-> description],
                            <<>>, TRUE, EmptyDict), db)
    ELSE
        LET c == create_approval(db, "late_expense")
        IN Returned(ToolResult("success", None, "submit_expense",
                               [amount |-> amount,
                                category |-> category,
                                description |-> description,
                                date |-> expense_date,
                                approval_id |-> c.made.id],
                               <<>>, TRUE,
                               [approval_id |-> c.made.id,
                                approval_status |-> "approved",
                                approver |-> c.made.approver,
                                reason_recorded |-> late_reason]), c.db)

----------------------------------------------------------------------------
(* expense_server.py: get_expense_categories *)

get_expense_categories(db) ==
    Returned(ToolResult("success", None, None, EmptyDict, <<>>, FALSE,
                        [receipt_threshold |-> RECEIPT_THRESHOLD,
                         approval_threshold |-> APPROVAL_THRESHOLD,
                         late_expense_days |-> LATE_EXPENSE_DAYS]), db)

----------------------------------------------------------------------------
(* expense_server.py: the tools @server.tool() registers, with the parameters *)
(* of each signature: those without a default are required.                   *)

ToolNames ==
    {"submit_expense", "upload_receipt", "request_expense_approval",
     "request_late_expense_approval", "get_expense_categories"}

RequiredParams(tool) ==
    CASE tool = "submit_expense" -> {"amount", "category", "description", "date"}
      [] tool = "upload_receipt" -> {"expense_amount"}
      [] tool = "request_expense_approval" ->
            {"amount", "category", "description", "date"}
      [] tool = "request_late_expense_approval" ->
            {"expense_date", "days_late", "amount", "category", "description",
             "late_reason"}
      [] OTHER -> {}

OptionalParams(tool) ==
    CASE tool = "submit_expense" -> {"receipt_url", "approval_id"}
      [] tool = "upload_receipt" -> {"file_data", "file_type"}
      [] tool = "request_expense_approval" -> {"receipt_url"}
      [] OTHER -> {}

Params(tool) == RequiredParams(tool) \cup OptionalParams(tool)

\* A call by name with a dictionary of arguments: the arguments the signature
\* names are bound, an optional one that is absent takes its default None.
Invoke(tool, args, db, today) ==
    CASE tool = "submit_expense" ->
            submit_expense(db, today, args.amount, args.category, args.description,
                           args.date, Get(args, "receipt_url"), Get(args, "approval_id"))
      [] tool = "upload_receipt" ->
            upload_receipt(db, args.expense_amount, Get(args, "file_data"),
                           Get(args, "file_type"))
      [] tool = "request_expense_approval" ->
            request_expense_approval(db, args.amount, args.category, args.description,
                                     args.date, Get(args, "receipt_url"))
      [] tool = "request_late_expense_approval" ->
            request_late_expense_approval(db, args.expense_date, args.days_late,
                                          args.amount, args.category, args.description,
                                          args.late_reason)
      [] OTHER -> get_expense_categories(db)

----------------------------------------------------------------------------
(* scripted_orchestration_server.py: execute_workflow                       *)
(*                                                                          *)
(* A script is what it does when run: whether it compiles, the statements   *)
(* it runs before its return statement, the value it returns, and what it   *)
(* does with the CancelledError that asyncio.wait_for throws into it at the *)
(* await where it is suspended (let it propagate, or catch it in a bare     *)
(* except clause and go on).  A statement is one of                         *)
(*   compute          synchronous work, no await                            *)
(*   create_expense   await tools.create_expense(...): the binding runs to  *)
(*                    its end without yielding to the event loop            *)
(*   binding_fault    a binding raises (a call with missing arguments)      *)
(*   suspend          an await that yields to the event loop                *)
(*   spin             a loop that never ends and never awaits               *)
(*   raise_exception  the script raises an instance of Exception            *)
(*   raise_timeout    the script raises asyncio.TimeoutError                *)
(*   raise_base       the script raises a BaseException that is no          *)
(*                    Exception (SystemExit, CancelledError)                *)
(* A returned value is [kind, inner]: its Python type, and for a container  *)
(* the type of what it holds.                                               *)

WORKFLOW_TIMEOUT == 60

Statements ==
    {"compute", "create_expense", "binding_fault", "suspend", "spin",
     "raise_exception", "raise_timeout", "raise_base"}

Value(kind, inner) == [kind |-> kind, inner |-> inner]

NoneValue == Value("NoneType", "NoneType")

Values ==
    {NoneValue, Value("float_nan", "NoneType"), Value("list", "int"),
     Value("dict", "str"), Value("list", "set"), Value("dict", "object"),
     Value("set", "int"), Value("object", "NoneType")}

\* The types json.dumps encodes; a non-finite float is written as NaN
\* (allow_nan is left at its default).
JsonTypes == {"NoneType", "bool", "int", "float", "float_nan", "str", "list", "tuple", "dict"}

JsonContainers == {"list", "tuple", "dict"}

\* json.dumps(data, indent=2) of a response holding value: whether it returns
\* (TRUE) or raises TypeError (FALSE).
JsonDumpsAcceptsSets(value) ==
    /\ value.kind \in JsonTypes \cup {"set"}
    /\ value.kind \in JsonContainers => value.inner \in JsonTypes \cup {"set"}
JsonDumpsOk(value) ==
    /\ value.kind \in JsonTypes
    /\ value.kind \in JsonContainers => value.inner \in JsonTypes

RECURSIVE SeqsUpTo(_, _)
SeqsUpTo(S, n) ==
    IF n = 0 THEN {<<>>}
    ELSE LET shorter == SeqsUpTo(S, n - 1)
         IN shorter \cup {Append(q, x) : q \in shorter, x \in S}

Scripts ==
    {[compiles |-> FALSE, steps |-> <<>>, ret |-> NoneValue, onCancel |-> "propagate"]}
    \cup [compiles : {TRUE}, steps : SeqsUpTo(Statements, MaxScriptLen),
          ret : Values, onCancel : {"propagate", "swallow"}]

NoScript == [compiles |-> FALSE, steps |-> <<>>, ret |-> NoneValue, onCancel |-> "propagate"]

WorkflowResponse(status, error, result, execution_time_ms, hint) ==
    [status |-> status, error |-> error, result |-> result,
     execution_time_ms |-> execution_time_ms, hint |-> hint]

NoWorkflowResponse == WorkflowResponse(None, None, NoneValue, 0, FALSE)

\* int((time.time() - start_time) * 1000)
ExecutionTime(elapsed) == elapsed * 1000

SuccessResponse(result, elapsed) ==
    WorkflowResponse("success", None, result, ExecutionTime(elapsed), FALSE)

\* except asyncio.TimeoutError
TimeoutResponse(elapsed) ==
    WorkflowResponse("error", "timeout", NoneValue, ExecutionTime(elapsed), FALSE)

\* except Exception as e
ErrorResponse(text, elapsed) ==
    WorkflowResponse("error", text, NoneValue, ExecutionTime(elapsed), TRUE)

\* The except clauses of execute_workflow on an exception of class cls with
\* text str(e): the response, or "propagates" when no clause matches.
Catches(cls) == cls \in {"TimeoutError", "Exception"}

\* The handler without its except asyncio.TimeoutError clause: str(e) is empty.
HandleNoTimeoutClause(cls, text, elapsed) ==
    ErrorResponse(IF cls = "TimeoutError" THEN "" ELSE text, elapsed)
Handle(cls, text, elapsed) ==
    IF cls = "TimeoutError" THEN TimeoutResponse(elapsed)
    ELSE ErrorResponse(text, elapsed)

\* phase: idle, running (the script holds the event loop), suspended (the
\* script is parked at an await), returned (execute_workflow returned resp),
\* raised (an exception left execute_workflow).
\* fault: the fault the script or its compilation raised, None if none.
\* timedOut: wait_for raised TimeoutError because its timer fired.
\* cancelSent: wait_for's timer fired and cancelled the script.
\* created: expenses the run's create_expense calls added to the ledger.
IdleWorkflow ==
    [phase |-> "idle", script |-> NoScript, pc |-> 0, elapsed |-> 0,
     cancelSent |-> FALSE, timedOut |-> FALSE, fault |-> None, created |-> 0,
     resp |-> NoWorkflowResponse]

----------------------------------------------------------------------------
(* The scope of a script: restricted_globals, and what Python lets a script *)
(* do with the objects found there.  An object is named by what it is; one  *)
(* operation (reading an attribute, subscripting, calling, awaiting) on an  *)
(* object the script holds hands it another object.  A key the restricted   *)
(* __builtins__ lacks cannot be named by a script; reading an attribute     *)
(* needs no builtin.                                                        *)

\* The allow-listed utility primitives (the keys of "__builtins__").
SAFE_BUILTINS ==
    {"len", "sum", "min", "max", "abs", "round", "sorted", "reversed",
     "enumerate", "zip", "map", "filter", "list", "dict", "set", "tuple",
     "str", "int", "float", "bool", "range", "print"}

\* The methods of WorkflowTools, reached as tools.<name>.
WORKFLOW_BINDINGS ==
    {"get_expenses", "get_expense", "create_expense", "get_category_rules",
     "get_all_category_rules", "request_approval", "upload_receipt",
     "get_expense_stats"}

\* The names bound at the top of the server's module.
MODULE_GLOBALS ==
    {"json", "sys", "asyncio", "time", "database", "storage", "mcp",
     "tool_response", "WorkflowTools", "workflow_tools"}

Builtin(name) == <<"builtin", name>>
Binding(name) == <<"binding", name>>
Global(name) == <<"global", name>>
ToolsObject == <<"tools", "workflow_tools">>
PlainValue == <<"value", "data">>
ModuleScope == <<"scope", "__globals__">>
SysModules == <<"sys", "modules">>
SysExit == <<"sys", "exit">>
OsModule == <<"module", "os">>
SocketModule == <<"module", "socket">>
BuiltinsModule == <<"module", "builtins">>
OpenFunction == <<"builtins", "open">>

\* restricted_globals: what a script can name.
restricted_globals == {Builtin(n) : n \in SAFE_BUILTINS} \cup {ToolsObject}

\* What one operation on the object o hands to the script.
Yields(o) ==
    CASE o = ToolsObject -> {Binding(n) : n \in WORKFLOW_BINDINGS}
      [] o[1] = "builtin" -> {PlainValue}
      [] o[1] = "binding" -> {PlainValue, ModuleScope}
      [] o = ModuleScope -> {Global(n) : n \in MODULE_GLOBALS}
      [] o = Global("workflow_tools") -> {ToolsObject}
      [] o = Global("sys") -> {SysModules, SysExit}
      [] o = SysModules -> {OsModule, SocketModule, BuiltinsModule}
      [] o = BuiltinsModule -> {OpenFunction}
      [] OTHER -> {}

\* What the contract lets a script hold: the bindings, the allow-listed
\* primitives, and the plain data they return.
Contained(o) == o \in restricted_globals \/ o[1] = "binding" \/ o = PlainValue

Networking(o) == o \in {SocketModule, Global("asyncio")}
FileSystem(o) == o \in {OpenFunction, OsModule}
ProcessControl(o) == o \in {SysExit, OsModule}
ServerScope(o) == o = ModuleScope \/ o[1] = "global"

\* The objects an expression of the script has gone through, first to last.
IdleScope == [path |-> <<>>]

IdleAgent == [state |-> "idle"]

IdleServers == [server |-> None]

----------------------------------------------------------------------------
(* Arguments the callers draw from *)

Amounts == {-1, 0, RECEIPT_THRESHOLD, RECEIPT_THRESHOLD + 1,
            APPROVAL_THRESHOLD, APPROVAL_THRESHOLD + 1}

Categories == {"meals", "Travel", "food"}

Descriptions == {"Team lunch at downtown cafe"}

GoodDate(day) == [ok |-> TRUE, day |-> day]
\* a text strptime rejects, such as "yesterday"
BadDate == [ok |-> FALSE, day |-> 0]

Dates == {GoodDate(Today + 1), GoodDate(Today), GoodDate(Today - LATE_EXPENSE_DAYS),
          GoodDate(Today - LATE_EXPENSE_DAYS - 1), BadDate}

ReceiptUrls == {None, "", ReceiptUrl(ReceiptId(1))}

ApprovalIds == {None, "", ApprovalId(1)}

FileTypes == {None, "image/jpeg", "image/gif"}

\* empty; nine letters; nine letters padded to thirteen characters; ten
\* letters; ten letters padded; twelve blanks
Reasons ==
    {<<>>,
     Rep("x", MIN_REASON_LEN - 1),
     Rep(" ", 2) \o Rep("x", MIN_REASON_LEN - 1) \o Rep(" ", 2),
     Rep("x", MIN_REASON_LEN),
     Rep(" ", 1) \o Rep("x", MIN_REASON_LEN) \o Rep(" ", 1),
     Rep(" ", MIN_REASON_LEN + 2)}

\* The idempotency key a caller sends with its submit_expense requests, or
\* None when it sends none.  No handler declares such a parameter.
IdempotencyKeys == {None, "key-1"}

Sessions ==
    [amount : Amounts, category : Categories, description : Descriptions, date : Dates,
     key : IdempotencyKeys]

NoCall == [tool |-> None, args |-> EmptyDict, raised |-> FALSE, resp |-> NoResponse]

IdleCaller ==
    [state |-> "idle", tool |-> None, args |-> EmptyDict, start |-> EmptyDict,
     hasReason |-> FALSE, reason |-> <<>>, calls |-> 0]

IdleSession ==
    [amount |-> 0, category |-> None, description |-> None, date |-> BadDate, key |-> None]


----------------------------------------------------------------------------
(* A session of arbitrary tool calls about one expense: the client calls any *)
(* registered tool, in any order, with the expense's fields and any receipt  *)
(* reference, approval reference, file type and late reason.                 *)

Call(tool, args) ==
    LET r == Invoke(tool, args, database, Today)
    IN /\ nCalls < MaxCalls
       /\ database' = r.db
       /\ pre' = database
       /\ last' = [tool |-> tool, args |-> args, raised |-> r.raised, resp |-> r.resp]
       /\ nCalls' = nCalls + 1
       /\ UNCHANGED <<sess, caller, wf, scope, agent, srv>>

SubmitExpense ==
    \E receipt_url \in ReceiptUrls, approval_id \in ApprovalIds :
        Call("submit_expense",
             [amount |-> sess.amount, category |-> sess.category,
              description |-> sess.description, date |-> sess.date,
              receipt_url |-> receipt_url, approval_id |-> approval_id,
              idempotency_key |-> sess.key])

UploadReceipt ==
    \E file_type \in FileTypes :
        Call("upload_receipt",
             [expense_amount |-> sess.amount, file_data |-> None,
              file_type |-> file_type])

RequestExpenseApproval ==
    \E receipt_url \in {None} :
        Call("request_expense_approval",
             [amount |-> sess.amount, category |-> sess.category,
              description |-> sess.description, date |-> sess.date,
              receipt_url |-> receipt_url])

RequestLateExpenseApproval ==
    \E late_reason \in Reasons :
        Call("request_late_expense_approval",
             [expense_date |-> sess.date,
              days_late |-> DaysSince(sess.date.day, Today) - LATE_EXPENSE_DAYS,
              amount |-> sess.amount, category |-> sess.category,
              description |-> sess.description, late_reason |-> late_reason])

GetExpenseCategories == Call("get_expense_categories", EmptyDict)

Init ==
    /\ database = MockDatabase
    /\ pre = MockDatabase
    /\ last = NoCall
    /\ sess \in Sessions
    /\ nCalls = 0
    /\ caller = IdleCaller
    /\ wf = IdleWorkflow
    /\ scope = IdleScope
    /\ agent = IdleAgent
    /\ srv = IdleServers

Next ==
    \/ SubmitExpense
    \/ UploadReceipt
    \/ RequestExpenseApproval
    \/ RequestLateExpenseApproval
    \/ GetExpenseCategories

Spec == Init /\ [][Next]_vars

----------------------------------------------------------------------------
(* A caller that follows the contract: it starts with one submit_expense    *)
(* call and then invokes the tool each response names in next_action, with  *)
(* the returned next_action_params laid over the arguments it has supplied  *)
(* so far.  hasReason says whether the user gives it a late_reason when a   *)
(* response names request_late_expense_approval.                            *)

StartArgs ==
    [amount : Amounts, category : Categories, description : Descriptions,
     date : Dates, receipt_url : ReceiptUrls, approval_id : ApprovalIds]

UserReasons == {Rep("x", MIN_REASON_LEN - 1), Rep("x", MIN_REASON_LEN)}

CanInvoke(tool, args) ==
    tool \in ToolNames /\ RequiredParams(tool) \subseteq DOMAIN args

\* The caller's next state after a response to its call of tool.
Follow(c, tool, r) ==
    IF r.raised THEN [c EXCEPT !.state = "fault", !.calls = @ + 1]
    ELSE IF r.resp.status = "success" /\ tool = "submit_expense"
    THEN [c EXCEPT !.state = "done", !.calls = @ + 1]
    ELSE IF r.resp.next_action = None
    THEN [c EXCEPT !.state = "stuck", !.calls = @ + 1]
    ELSE LET supplied ==
                 IF r.resp.next_action = "request_late_expense_approval" /\ c.hasReason
                 THEN Merge([late_reason |-> c.reason], c.args)
                 ELSE c.args
         IN [c EXCEPT !.tool = r.resp.next_action,
                      !.args = Merge(r.resp.next_action_params, supplied),
                      !.calls = @ + 1]

FollowInvoke ==
    /\ caller.state = "calling"
    /\ caller.calls < MaxFollowCalls
    /\ CanInvoke(caller.tool, caller.args)
    /\ LET args == Restrict(caller.args, Params(caller.tool))
           r == Invoke(caller.tool, args, database, Today)
       IN /\ database' = r.db
          /\ pre' = database
          /\ last' = [tool |-> caller.tool, args |-> args, raised |-> r.raised,
                      resp |-> r.resp]
          /\ caller' = Follow(caller, caller.tool, r)
    /\ UNCHANGED <<sess, nCalls, wf, scope, agent, srv>>

\* The named operation is no registered tool, or a required parameter of it is
\* neither in next_action_params nor among the arguments supplied so far.
FollowStuck ==
    /\ caller.state = "calling"
    /\ ~CanInvoke(caller.tool, caller.args)
    /\ caller' = [caller EXCEPT !.state = "stuck"]
    /\ UNCHANGED <<database, pre, last, sess, nCalls, wf, scope, agent, srv>>

FollowGiveUp ==
    /\ caller.state = "calling"
    /\ caller.calls >= MaxFollowCalls
    /\ CanInvoke(caller.tool, caller.args)
    /\ caller' = [caller EXCEPT !.state = "gave_up"]
    /\ UNCHANGED <<database, pre, last, sess, nCalls, wf, scope, agent, srv>>

InitFollow ==
    /\ database = MockDatabase
    /\ pre = MockDatabase
    /\ last = NoCall
    /\ sess = IdleSession
    /\ nCalls = 0
    /\ wf = IdleWorkflow
    /\ scope = IdleScope
    /\ agent = IdleAgent
    /\ srv = IdleServers
    /\ \E start \in StartArgs, hasReason \in BOOLEAN, reason \in UserReasons :
          caller = [state |-> "calling", tool |-> "submit_expense", args |-> start,
                    start |-> start, hasReason |-> hasReason,
                    reason |-> IF hasReason THEN reason ELSE <<>>, calls |-> 0]

NextFollow ==
    \/ FollowInvoke
    \/ FollowStuck
    \/ FollowGiveUp

SpecFollow == InitFollow /\ [][NextFollow]_vars

----------------------------------------------------------------------------
(* scripted_orchestration_server.py: execute_workflow, the run *)

WfActive == wf.phase \in {"running", "suspended"}

\* An exception of class cls leaves the script (or compile): the except
\* clauses answer it, or it leaves execute_workflow.
Throw(w, cls, text) ==
    IF Catches(cls)
    THEN [w EXCEPT !.phase = "returned", !.resp = Handle(cls, text, w.elapsed)]
    ELSE [w EXCEPT !.phase = "raised"]

\* compile and exec of the wrapped code; the coroutine is handed to wait_for.
WfStart ==
    /\ wf.phase = "idle"
    /\ wf' = IF wf.script.compiles
             THEN [wf EXCEPT !.phase = "running", !.pc = 1]
             ELSE Throw([wf EXCEPT !.fault = "SyntaxError"], "Exception", "SyntaxError")
    /\ UNCHANGED <<database, last, pre, sess, nCalls, caller, scope, agent, srv>>

\* The script runs one statement.
WfStep ==
    /\ wf.phase = "running"
    /\ wf.pc \in DOMAIN wf.script.steps
    /\ LET st == wf.script.steps[wf.pc]
       IN /\ st # "spin"
          /\ wf' = CASE st = "compute" -> [wf EXCEPT !.pc = @ + 1]
                     [] st = "create_expense" ->
                            [wf EXCEPT !.pc = @ + 1, !.created = @ + 1]
                     [] st = "suspend" -> [wf EXCEPT !.phase = "suspended"]
                     [] st = "binding_fault" ->
                            Throw([wf EXCEPT !.fault = st], "Exception", st)
                     [] st = "raise_exception" ->
                            Throw([wf EXCEPT !.fault = st], "Exception", st)
                     [] st = "raise_timeout" ->
                            Throw([wf EXCEPT !.fault = st], "TimeoutError", st)
                     [] OTHER ->
                            Throw([wf EXCEPT !.fault = st], "BaseException", st)
    /\ UNCHANGED <<database, last, pre, sess, nCalls, caller, scope, agent, srv>>

\* The script returns; wait_for hands the value back and tool_response
\* serializes the success response inside the try block.
WfReturn ==
    /\ wf.phase = "running"
    /\ wf.pc = Len(wf.script.steps) + 1
    /\ wf' = IF JsonDumpsOk(wf.script.ret)
             THEN [wf EXCEPT !.phase = "returned",
                             !.resp = SuccessResponse(wf.script.ret, wf.elapsed)]
             ELSE Throw(wf, "Exception", "TypeError")
    /\ UNCHANGED <<database, last, pre, sess, nCalls, caller, scope, agent, srv>>

\* Time passes while the script holds the event loop: nothing else runs, the
\* timer of wait_for included.
WfBusy ==
    /\ wf.phase = "running"
    /\ wf.elapsed + TickSeconds <= MaxElapsed
    /\ wf' = [wf EXCEPT !.elapsed = @ + TickSeconds]
    /\ UNCHANGED <<database, last, pre, sess, nCalls, caller, scope, agent, srv>>

\* Time passes while the script is parked and no timer is due.
WfWait ==
    /\ wf.phase = "suspended"
    /\ wf.elapsed < WORKFLOW_TIMEOUT \/ wf.cancelSent
    /\ wf.elapsed + TickSeconds <= MaxElapsed
    /\ wf' = [wf EXCEPT !.elapsed = @ + TickSeconds]
    /\ UNCHANGED <<database, last, pre, sess, nCalls, caller, scope, agent, srv>>

\* What the script awaits completes and the event loop resumes it.
WfResume ==
    /\ wf.phase = "suspended"
    /\ wf' = [wf EXCEPT !.phase = "running", !.pc = @ + 1]
    /\ UNCHANGED <<database, last, pre, sess, nCalls, caller, scope, agent, srv>>

\* asyncio.wait_for(coro, timeout=60.0): the timer fires while the script is
\* parked and CancelledError is thrown into it.  If it propagates wait_for
\* raises TimeoutError; a script that swallows it runs on.
WfTimeout ==
    /\ wf.phase = "suspended"
    /\ wf.elapsed >= WORKFLOW_TIMEOUT
    /\ ~wf.cancelSent
    /\ wf' = IF wf.script.onCancel = "propagate"
             THEN Throw([wf EXCEPT !.cancelSent = TRUE, !.timedOut = TRUE],
                        "TimeoutError", "timeout")
             ELSE [wf EXCEPT !.cancelSent = TRUE, !.phase = "running", !.pc = @ + 1]
    /\ UNCHANGED <<database, last, pre, sess, nCalls, caller, scope, agent, srv>>

InitWorkflow ==
    /\ database = MockDatabase
    /\ pre = MockDatabase
    /\ last = NoCall
    /\ sess = IdleSession
    /\ nCalls = 0
    /\ caller = IdleCaller
    /\ scope = IdleScope
    /\ agent = IdleAgent
    /\ srv = IdleServers
    /\ \E script \in Scripts : wf = [IdleWorkflow EXCEPT !.script = script]

\* A step of the run that is not only the passing of time.
WfAdvance == WfStart \/ WfStep \/ WfReturn \/ WfResume \/ WfTimeout

NextWorkflow ==
    \/ WfStart
    \/ WfStep
    \/ WfReturn
    \/ WfBusy
    \/ WfWait
    \/ WfResume
    \/ WfTimeout

SpecWorkflow == InitWorkflow /\ [][NextWorkflow]_vars

----------------------------------------------------------------------------
(* 03-intelligence-budget/code/database.py: the ledger the six servers of   *)
(* that directory share, and its rule table.  Amounts are whole dollars.    *)
(* A response is the dictionary handed to tool_response, with the keys the  *)
(* handler writes; the message and tell_user texts are left out.            *)

CategoryRules(max_amount, receipt_required_over, approval_required_over) == [max_amount |-> max_amount, receipt_required_over |-> receipt_required_over, approval_required_over |-> approval_required_over]

\* a table in which meals need a receipt only above their approval threshold
category_rules_unordered ==
    [meals |-> CategoryRules(150, 125, 100),
     client_entertainment |-> CategoryRules(500, 25, 150),
     team_meals |-> CategoryRules(300, 50, 200),
     travel |-> CategoryRules(5000, 50, 500),
     supplies |-> CategoryRules(1000, 100, 500),
     software |-> CategoryRules(2000, 0, 500)]

\* MockDatabase._category_rules
category_rules ==
    [meals |-> CategoryRules(150, 25, 100),
     client_entertainment |-> CategoryRules(500, 25, 150),
     team_meals |-> CategoryRules(300, 50, 200),
     travel |-> CategoryRules(5000, 50, 500),
     supplies |-> CategoryRules(1000, 100, 500),
     software |-> CategoryRules(2000, 0, 500)]

\* MockDatabase.get_category_rules: the table, or the defaults
get_category_rules(category) ==
    IF category \in DOMAIN category_rules
    THEN category_rules[category]
    ELSE CategoryRules(1000, 100, 500)

\* MockDatabase.__init__
Database03 ==
    [expenses |-> <<>>, approvals |-> <<>>, expense_counter |-> 1,
     approval_counter |-> 1]

\* f"EXP-{str(counter).zfill(6)}", for the counters a run reaches
ExpenseNumber(counter) == "EXP-00000" \o ToString(counter)

\* create_expense storing the record under two ids
db_create_expense_twice(db, amount, category, description, status, date, receipt_url, approval_id) ==
    LET made == [id |-> "exp_" \o ToString(db.expense_counter),
                 number |-> ExpenseNumber(db.expense_counter + 1),
                 amount |-> amount, category |-> category,
                 description |-> description, status |-> status, date |-> date,
                 receipt_url |-> receipt_url, approval_id |-> approval_id]
    IN [db |-> [db EXCEPT !.expenses = Append(Append(@, made), made),
                          !.expense_counter = @ + 2],
        made |-> made]

\* MockDatabase.create_expense: the number is built after the counter moved
db_create_expense(db, amount, category, description, status, date, receipt_url, approval_id) ==
    LET made == [id |-> "exp_" \o ToString(db.expense_counter),
                 number |-> ExpenseNumber(db.expense_counter + 1),
                 amount |-> amount, category |-> category,
                 description |-> description, status |-> status, date |-> date,
                 receipt_url |-> receipt_url, approval_id |-> approval_id]
    IN [db |-> [db EXCEPT !.expenses = Append(@, made),
                          !.expense_counter = @ + 1],
        made |-> made]

\* MockDatabase.create_approval
db_create_approval(db, amount, category, description) ==
    LET made == [id |-> "apr_" \o ToString(db.approval_counter),
                 amount |-> amount, category |-> category,
                 description |-> description, status |-> "pending",
                 approver_id |-> "mgr_001", approver_name |-> "Jane Smith"]
    IN [db |-> [db EXCEPT !.approvals = Append(@, made),
                          !.approval_counter = @ + 1],
        made |-> made]

\* Storage.upload_receipt: the id is the clock's millisecond
storage_upload_receipt(ms) ==
    [url |-> "https://storage.example.com/receipts/rcpt_" \o ToString(ms),
     id |-> "rcpt_" \o ToString(ms)]

\* What a handler call comes to: the response it returns, or the fault that
\* leaves it, and the ledger afterwards.  judged counts the calls the handler
\* made to the language model.
Answer(resp, db, judged) == [raised |-> FALSE, resp |-> resp, db |-> db, judged |-> judged]
Fault(db, judged) == [raised |-> TRUE, resp |-> EmptyDict, db |-> db, judged |-> judged]

\* upload_receipt of tool_heavy, hybrid, self_prompting and validate_at_source
upload_receipt_03(db, ms) ==
    LET receipt == storage_upload_receipt(ms)
    IN Answer([status |-> "success", receipt_url |-> receipt.url,
               receipt_id |-> receipt.id, next_action |-> "submit_expense",
               hint |-> "Now retry submit_expense with this receipt_url"], db, 0)

\* request_approval of tool_heavy, hybrid, self_prompting and validate_at_source
request_approval_03(db, amount, category, description) ==
    LET c == db_create_approval(db, amount, category, description)
    IN Answer([status |-> "success", approval_id |-> c.made.id,
               approval_status |-> c.made.status, approver |-> c.made.approver_name,
               next_action |-> "wait",
               hint |-> "Tell user the approval request has been sent."], c.db, 0)

----------------------------------------------------------------------------
(* tool_heavy_server.py *)

EXPENSE_TYPES == {"meal", "travel", "supplies", "software"}

tool_heavy_category(expense_type, has_client_attendees) ==
    IF expense_type = "meal" /\ has_client_attendees = TRUE THEN "client_entertainment"
    ELSE IF expense_type = "meal" THEN "meals"
    ELSE expense_type

tool_heavy_submit_expense(db, amount, expense_type, description, has_client_attendees, receipt_url, approval_id) ==
    LET category == tool_heavy_category(expense_type, has_client_attendees)
        rules == get_category_rules(category)
    IN  IF expense_type \notin EXPENSE_TYPES THEN
            \* the Literal of the signature: the call never reaches the handler
            Fault(db, 0)
        ELSE IF amount <= 0 THEN
            Answer([status |-> "failed", error |-> "invalid_amount"], db, 0)
        ELSE IF amount > rules.max_amount THEN
            Answer([status |-> "failed", error |-> "amount_too_high",
                    max_allowed |-> rules.max_amount, current_amount |-> amount,
                    hint |-> "Amount exceeds category maximum. User may need to split expense or choose different category."],
                   db, 0)
        ELSE IF amount > rules.receipt_required_over /\ ~Truthy(receipt_url) THEN
            Answer([status |-> "needs_receipt", category |-> category,
                    amount |-> amount,
                    receipt_threshold |-> rules.receipt_required_over,
                    next_action |-> "upload_receipt",
                    next_action_params |->
                        [expense_amount |-> amount, expense_category |-> category,
                         supported_formats |-> VALID_TYPES, max_size_mb |-> 10],
                    hint |-> "Ask user to provide receipt photo. After upload, retry submit_expense with receipt_url."],
                   db, 0)
        ELSE IF amount > rules.approval_required_over /\ ~Truthy(approval_id) THEN
            Answer([status |-> "needs_approval", category |-> category,
                    amount |-> amount,
                    approval_threshold |-> rules.approval_required_over,
                    next_action |-> "request_approval",
                    next_action_params |->
                        [amount |-> amount, category |-> category,
                         description |-> description, receipt_url |-> receipt_url],
                    hint |-> "Request approval from manager. After approval, retry submit_expense with approval_id."],
                   db, 0)
        ELSE
            LET c == db_create_expense(db, amount, category, description,
                                       "approved", EmptyDict, receipt_url, approval_id)
            IN Answer([status |-> "success", expense_id |-> c.made.id,
                       expense_number |-> c.made.number, category |-> category,
                       amount |-> amount], c.db, 0)

----------------------------------------------------------------------------
(* agent_heavy_server.py *)

agent_heavy_submit_expense(db, amount, category, description, receipt_url, approval_id) ==
    IF amount <= 0 THEN
        \* raise ValueError("Amount must be positive")
        Fault(db, 0)
    ELSE
        LET c == db_create_expense(db, amount, category, description,
                                   "submitted", EmptyDict, receipt_url, approval_id)
        IN Answer([success |-> TRUE, expense_id |-> c.made.id,
                   expense_number |-> c.made.number], c.db, 0)

agent_heavy_get_category_rules(db) ==
    Answer([categories |-> category_rules], db, 0)

agent_heavy_upload_receipt(db, ms) ==
    LET receipt == storage_upload_receipt(ms)
    IN Answer([success |-> TRUE, receipt_url |-> receipt.url,
               receipt_id |-> receipt.id], db, 0)

agent_heavy_request_approval(db, amount, category, description) ==
    LET c == db_create_approval(db, amount, category, description)
    IN Answer([success |-> TRUE, approval_id |-> c.made.id,
               approval_status |-> c.made.status,
               approver |-> c.made.approver_name], c.db, 0)

----------------------------------------------------------------------------
(* scripted_orchestration_server.py: submit_expense, the direct tool *)

CATEGORIES_03 ==
    {"meals", "travel", "supplies", "software", "client_entertainment", "team_meals"}

scripted_submit_expense(db, amount, category, description, receipt_url, approval_id) ==
    LET rules == get_category_rules(category)
    IN  IF category \notin CATEGORIES_03 THEN
            Fault(db, 0)
        ELSE IF amount <= 0 THEN
            Answer([status |-> "error", error |-> "invalid_amount"], db, 0)
        ELSE IF amount > rules.max_amount THEN
            Answer([status |-> "error", error |-> "amount_too_high"], db, 0)
        ELSE IF amount > rules.receipt_required_over /\ ~Truthy(receipt_url) THEN
            Answer([status |-> "error", error |-> "needs_receipt"], db, 0)
        ELSE IF amount > rules.approval_required_over /\ ~Truthy(approval_id) THEN
            Answer([status |-> "error", error |-> "needs_approval"], db, 0)
        ELSE
            LET c == db_create_expense(db, amount, category, description,
                                       "approved", EmptyDict, receipt_url, approval_id)
            IN Answer([status |-> "success", expense_id |-> c.made.id,
                       expense_number |-> c.made.number], c.db, 0)

----------------------------------------------------------------------------
(* Texts: a description is a string, read character by character with Len   *)
(* and SubSeq.                                                              *)

UPPERCASE == "ABCDEFGHIJKLMNOPQRSTUVWXYZ"
LOWERCASE == "abcdefghijklmnopqrstuvwxyz"
DIGITS == "0123456789"

CharAt(s, i) == SubSeq(s, i, i)

\* w in s
Contains(s, w) ==
    \E i \in 1..(Len(s) - Len(w) + 1) : SubSeq(s, i, i + Len(w) - 1) = w

\* str.lower()
RECURSIVE StrLower(_)
StrLower(s) ==
    IF Len(s) = 0 THEN ""
    ELSE LET c == CharAt(s, 1)
             l == IF Contains(UPPERCASE, c)
                  THEN CharAt(LOWERCASE, CHOOSE i \in 1..26 : CharAt(UPPERCASE, i) = c)
                  ELSE c
         IN l \o StrLower(SubSeq(s, 2, Len(s)))

\* any(word in text for word in words)
ContainsAny(text, words) == \E w \in words : Contains(text, w)

\* \w of a regular expression
IsWordChar(c) == Contains(UPPERCASE, c) \/ Contains(LOWERCASE, c) \/ Contains(DIGITS, c) \/ c = "_"

\* re.search(r'\b(w1|w2|...)\b', text)
SearchWord(text, words) ==
    \E w \in words : \E i \in 1..(Len(text) - Len(w) + 1) :
        /\ SubSeq(text, i, i + Len(w) - 1) = w
        /\ (i = 1 \/ ~IsWordChar(CharAt(text, i - 1)))
        /\ (i + Len(w) > Len(text) \/ ~IsWordChar(CharAt(text, i + Len(w))))

----------------------------------------------------------------------------
(* hybrid_server.py *)

\* determine_category; context is an ExpenseContext, or EmptyDict for None;
\* an Optional[bool] field is read for its truth only and is a BOOLEAN here
determine_category(description, context) ==
    LET lower == StrLower(description)
    IN  IF ContainsAny(lower, {"dinner", "lunch", "breakfast", "meal", "restaurant", "food"}) THEN
            IF context # EmptyDict /\ context.has_client_involved = TRUE THEN "client_entertainment"
            ELSE IF context # EmptyDict /\ context.is_team_event = TRUE THEN "team_meals"
            ELSE "meals"
        ELSE IF ContainsAny(lower, {"flight", "hotel", "rental", "uber", "taxi", "airbnb"}) THEN "travel"
        ELSE IF ContainsAny(lower, {"software", "subscription", "saas", "license"}) THEN "software"
        ELSE IF ContainsAny(lower, {"office", "supplies", "equipment", "furniture"}) THEN "supplies"
        ELSE "unknown"

\* suggest_categories: the names, best first
suggest_categories(description) ==
    LET lower == StrLower(description)
    IN  (IF ContainsAny(lower, {"trip", "travel"}) THEN <<"travel">> ELSE <<>>)
        \o (IF ContainsAny(lower, {"eat", "food"}) THEN <<"meals">> ELSE <<>>)
        \o (IF ContainsAny(lower, {"client", "customer"}) THEN <<"client_entertainment">> ELSE <<>>)
        \o (IF ContainsAny(lower, {"buy", "purchase"}) THEN <<"supplies">> ELSE <<>>)

hybrid_submit_expense(db, amount, description, context, receipt_url, approval_id) ==
    LET category == determine_category(description, context)
        rules == get_category_rules(category)
        is_urgent == IF context # EmptyDict THEN context.urgency = "urgent" ELSE FALSE
        effective_approval_threshold ==
            IF is_urgent THEN (rules.approval_required_over * 3) \div 2
            ELSE rules.approval_required_over
    IN  IF category = "unknown" THEN
            Answer([status |-> "needs_clarification",
                    description_provided |-> description,
                    suggested_categories |-> suggest_categories(description),
                    hint |-> "Description is ambiguous. Present category options to user or ask for more details about what this expense was for."],
                   db, 0)
        ELSE IF amount <= 0 THEN
            Answer([status |-> "failed", error |-> "invalid_amount",
                    hint |-> "Amount is not valid. Ask user to verify the expense amount."],
                   db, 0)
        ELSE IF amount > rules.max_amount THEN
            Answer([status |-> "failed", error |-> "amount_too_high",
                    max_allowed |-> rules.max_amount, current_amount |-> amount,
                    current_category |-> category,
                    alternative_actions |->
                        <<[action |-> "split_expense"],
                          [action |-> "request_exception",
                           params |-> [amount |-> amount, category |-> category,
                                       justification |-> "exceeds limit"]],
                          [action |-> "recategorize"]>>,
                    hint |-> "Amount exceeds maximum. Present alternatives to user."],
                   db, 0)
        ELSE IF amount > rules.receipt_required_over /\ ~Truthy(receipt_url) THEN
            Answer([status |-> "needs_receipt", category |-> category,
                    amount |-> amount,
                    receipt_threshold |-> rules.receipt_required_over,
                    next_action |-> "upload_receipt",
                    next_action_params |->
                        [expense_amount |-> amount, expense_description |-> description,
                         supported_formats |-> VALID_TYPES, max_size_mb |-> 10],
                    hint |-> IF is_urgent
                             THEN "This is urgent. Explain that receipt can be uploaded immediately via phone camera."
                             ELSE "Ask user to provide receipt photo. After upload, retry submit_expense with receipt_url."],
                   db, 0)
        ELSE IF amount > effective_approval_threshold /\ ~Truthy(approval_id) THEN
            Answer([status |-> "needs_approval", category |-> category,
                    amount |-> amount,
                    approval_threshold |-> effective_approval_threshold,
                    is_urgent |-> is_urgent,
                    next_action |-> "request_approval",
                    next_action_params |->
                        [amount |-> amount, category |-> category,
                         description |-> description, receipt_url |-> receipt_url,
                         urgency |-> IF context # EmptyDict THEN context.urgency ELSE "normal"],
                    hint |-> IF is_urgent
                             THEN "Mark as urgent. Approver will be notified to expedite."
                             ELSE "Request approval from manager. Standard timeline is 2-3 business days."],
                   db, 0)
        ELSE
            LET c == db_create_expense(db, amount, category, description,
                                       "approved", EmptyDict, receipt_url, approval_id)
            IN Answer([status |-> "success", expense_id |-> c.made.id,
                       expense_number |-> c.made.number, category |-> category,
                       amount |-> amount], c.db, 0)

----------------------------------------------------------------------------
(* self_prompting_server.py.  A confidence is in hundredths.  A reply of    *)
(* the language model is what its text comes to when the caller reads it:   *)
(*   [kind |-> "api_error"]     the request itself raises                   *)
(*   [kind |-> "no_json"]       the text holds no {...}                     *)
(*   [kind |-> "invalid_json"]  json.loads rejects the {...}                *)
(*   [kind |-> "json", fields |-> f]  a JSON object with the keys of f      *)

FOOD_WORDS == {"lunch", "dinner", "breakfast", "meal", "restaurant", "coffee"}

\* classify_expense: the parsed object when it has category and confidence,
\* otherwise the fallback
classify_expense(reply) ==
    IF reply.kind = "json" /\ {"category", "confidence"} \subseteq DOMAIN reply.fields
    THEN reply.fields
    ELSE [category |-> "unknown", confidence |-> 30,
          reasoning |-> "Could not parse LLM response"]

\* a resolver that tries the keywords before the hints
classify_keywords_first(description, context_hints, reply) ==
    LET lower_desc == StrLower(description)
        has_food == ContainsAny(lower_desc, FOOD_WORDS)
        Deterministic(category, confidence) ==
            [category |-> category, confidence |-> confidence,
             source |-> "deterministic", called |-> FALSE]
    IN  IF SearchWord(lower_desc, {"flight", "airline", "hotel", "airbnb", "uber", "lyft", "taxi", "rental car", "train"})
            THEN Deterministic("travel", 95)
        ELSE IF context_hints # EmptyDict /\ context_hints.mentions_client = TRUE /\ has_food
            THEN Deterministic("client_entertainment", 95)
        ELSE IF context_hints # EmptyDict /\ context_hints.mentions_team = TRUE /\ has_food
            THEN Deterministic("team_meals", 95)
        ELSE LET llm_result == classify_expense(reply)
             IN [category |-> llm_result.category,
                 confidence |-> llm_result.confidence,
                 source |-> "llm", called |-> TRUE]

\* classify_expense_with_fallback; called is whether the language model was asked
classify_expense_with_fallback(description, context_hints, reply) ==
    LET lower_desc == StrLower(description)
        has_food == ContainsAny(lower_desc, FOOD_WORDS)
        Deterministic(category, confidence) ==
            [category |-> category, confidence |-> confidence,
             source |-> "deterministic", called |-> FALSE]
    IN  IF context_hints # EmptyDict /\ context_hints.mentions_client = TRUE /\ has_food
            THEN Deterministic("client_entertainment", 95)
        ELSE IF context_hints # EmptyDict /\ context_hints.mentions_team = TRUE /\ has_food
            THEN Deterministic("team_meals", 95)
        ELSE IF SearchWord(lower_desc, {"flight", "airline", "hotel", "airbnb", "uber", "lyft", "taxi", "rental car", "train"})
            THEN Deterministic("travel", 95)
        ELSE IF SearchWord(lower_desc, {"software", "subscription", "license", "saas", "app"})
            THEN Deterministic("software", 90)
        ELSE IF SearchWord(lower_desc, {"supplies", "equipment", "office", "furniture", "desk", "chair"})
            THEN Deterministic("supplies", 90)
        ELSE LET llm_result == classify_expense(reply)
             IN [category |-> llm_result.category,
                 confidence |-> llm_result.confidence,
                 source |-> "llm", called |-> TRUE]

\* if classification["confidence"] < 0.69
LowConfidenceLax(confidence) == confidence < 69
\* if classification["confidence"] < 0.7, in hundredths
LowConfidence(confidence) == confidence < 70

self_prompting_submit_expense(db, amount, description, context_hints, receipt_url, approval_id, reply) ==
    LET classification == classify_expense_with_fallback(description, context_hints, reply)
        judged == IF classification.called THEN 1 ELSE 0
        category == classification.category
        rules == get_category_rules(category)
    IN  IF classification.called /\ reply.kind = "api_error" THEN
            Fault(db, judged)
        ELSE IF category = "unknown" THEN
            Answer([status |-> "needs_clarification",
                    description_provided |-> description,
                    classification_confidence |-> classification.confidence,
                    hint |-> "The description is ambiguous. Ask user for more details about what type of expense this is."],
                   db, judged)
        ELSE IF LowConfidence(classification.confidence) THEN
            Answer([status |-> "needs_clarification",
                    suggested_category |-> category,
                    confidence |-> classification.confidence,
                    classification_source |-> classification.source,
                    hint |-> "The tool thinks this might be this category but isn't confident. Ask user to confirm."],
                   db, judged)
        ELSE IF amount <= 0 THEN
            Answer([status |-> "failed", error |-> "invalid_amount"], db, judged)
        ELSE IF amount > rules.max_amount THEN
            Answer([status |-> "failed", error |-> "amount_too_high",
                    max_allowed |-> rules.max_amount, current_amount |-> amount,
                    hint |-> "Amount exceeds category maximum. User may need to split expense or recategorize."],
                   db, judged)
        ELSE IF amount > rules.receipt_required_over /\ ~Truthy(receipt_url) THEN
            Answer([status |-> "needs_receipt", category |-> category,
                    amount |-> amount,
                    classification_source |-> classification.source,
                    next_action |-> "upload_receipt",
                    next_action_params |->
                        [expense_amount |-> amount, expense_category |-> category],
                    hint |-> "Ask user to provide receipt. After upload, retry submit_expense with receipt_url."],
                   db, judged)
        ELSE IF amount > rules.approval_required_over /\ ~Truthy(approval_id) THEN
            Answer([status |-> "needs_approval", category |-> category,
                    amount |-> amount,
                    classification_source |-> classification.source,
                    next_action |-> "request_approval",
                    next_action_params |->
                        [amount |-> amount, category |-> category,
                         description |-> description, receipt_url |-> receipt_url],
                    hint |-> "Request approval from manager. After approval, retry submit_expense with approval_id."],
                   db, judged)
        ELSE
            LET c == db_create_expense(db, amount, category, description,
                                       "approved", EmptyDict, receipt_url, approval_id)
            IN Answer([status |-> "success", expense_id |-> c.made.id,
                       expense_number |-> c.made.number, category |-> category,
                       amount |-> amount,
                       classification_source |-> classification.source], c.db, judged)

----------------------------------------------------------------------------
(* validate_at_source_server.py.  The clock is [day, late]: the calendar    *)
(* day, and whether the time of day is past midnight.  A date argument is   *)
(* EmptyDict (for None) or [ok, day], parsed to midnight of that day.      *)

\* str.strip()
RECURSIVE StripText(_)
StripText(s) ==
    IF Len(s) > 0 /\ IsSpace(CharAt(s, 1)) THEN StripText(SubSeq(s, 2, Len(s)))
    ELSE IF Len(s) > 0 /\ IsSpace(CharAt(s, Len(s))) THEN StripText(SubSeq(s, 1, Len(s) - 1))
    ELSE s

\* len(text.split())
WordCount(s) ==
    Cardinality({i \in 1..Len(s) : ~IsSpace(CharAt(s, i)) /\ (i = 1 \/ IsSpace(CharAt(s, i - 1)))})

IsLetter(c) == Contains(UPPERCASE, c) \/ Contains(LOWERCASE, c)

\* the gibberish_patterns matched without re.IGNORECASE
MatchesGibberishCaseSensitive(text) ==
    \/ Len(text) >= 5 /\ \A i \in 1..Len(text) : Contains(LOWERCASE, CharAt(text, i))
    \/ Len(text) >= 1 /\ \A i \in 1..Len(text) :
            Contains(DIGITS, CharAt(text, i)) \/ IsSpace(CharAt(text, i))
    \/ Len(text) >= 5 /\ \A i \in 2..5 : CharAt(text, i) = CharAt(text, 1)
    \/ text = "test"
    \/ Len(text) >= 3 /\ \A i \in 1..Len(text) : CharAt(text, i) = "x"
\* the gibberish_patterns, each tried with re.match (at the start of the text)
\* and re.IGNORECASE:  ^[a-z]{5,}$   ^[\d\s]+$   (.)\1{4,}   ^test$   ^xxx+$
MatchesGibberish(text) ==
    \/ Len(text) >= 5 /\ \A i \in 1..Len(text) : IsLetter(CharAt(text, i))
    \/ Len(text) >= 1 /\ \A i \in 1..Len(text) :
            Contains(DIGITS, CharAt(text, i)) \/ IsSpace(CharAt(text, i))
    \/ Len(text) >= 5 /\ \A i \in 2..5 : StrLower(CharAt(text, i)) = StrLower(CharAt(text, 1))
    \/ StrLower(text) = "test"
    \/ Len(text) >= 3 /\ \A i \in 1..Len(text) : StrLower(CharAt(text, i)) = "x"

category_limits ==
    [meals |-> 100, team_meals |-> 500, client_entertainment |-> 300,
     travel |-> 5000, supplies |-> 500, software |-> 1000]

\* validate_business_rules
validate_business_rules(amount, category, date, now) ==
    LET max_amount == IF category \in DOMAIN category_limits
                      THEN category_limits[category] ELSE 500
    IN  IF amount > max_amount THEN
            [valid |-> FALSE, error |-> "expenses are limited"]
        ELSE IF date # EmptyDict THEN
            IF ~date.ok THEN
                [valid |-> FALSE, error |-> "Invalid date format. Use YYYY-MM-DD."]
            ELSE IF date.day > now.day THEN
                [valid |-> FALSE, error |-> "Expense date cannot be in the future."]
            ELSE IF date.day < now.day - 90 \/ (date.day = now.day - 90 /\ now.late) THEN
                [valid |-> FALSE,
                 error |-> "Expenses older than 90 days cannot be submitted. Please contact finance for exceptions."]
            ELSE IF category = "client_entertainment" /\ date.day % 7 \in {5, 6} THEN
                [valid |-> TRUE, warning |-> "weekend_client_entertainment"]
            ELSE [valid |-> TRUE]
        ELSE [valid |-> TRUE]

\* validate_semantics asking the language model before it counts the words
validate_semantics_asking_first(description, reply) ==
    LET description_stripped == StripText(description)
        brief == WordCount(description_stripped) < 2
    IN  IF MatchesGibberish(description_stripped) THEN
            [valid |-> FALSE, confidence |-> 95,
             issues |-> <<"Description appears to be placeholder or test text">>,
             suggestions |-> <<"Provide a meaningful description of what this expense was for">>,
             called |-> FALSE]
        ELSE [valid |-> ~brief, confidence |-> 90,
              issues |-> IF brief THEN <<"Description is too brief for audit purposes">> ELSE <<>>,
              suggestions |-> <<>>, called |-> TRUE]

\* validate_semantics; called is whether the language model was asked
validate_semantics(description, reply) ==
    LET description_stripped == StripText(description)
    IN  IF MatchesGibberish(description_stripped) THEN
            [valid |-> FALSE, confidence |-> 95,
             issues |-> <<"Description appears to be placeholder or test text">>,
             suggestions |-> <<"Provide a meaningful description of what this expense was for">>,
             called |-> FALSE]
        ELSE IF WordCount(description_stripped) < 2 THEN
            [valid |-> FALSE, confidence |-> 90,
             issues |-> <<"Description is too brief for audit purposes">>,
             suggestions |-> <<"Include what the expense was for and any relevant context">>,
             called |-> FALSE]
        ELSE IF reply.kind = "json" THEN
            [valid |-> IF "valid" \in DOMAIN reply.fields THEN reply.fields.valid ELSE TRUE,
             confidence |-> IF "confidence" \in DOMAIN reply.fields
                            THEN reply.fields.confidence ELSE 80,
             issues |-> <<>>, suggestions |-> <<>>, called |-> TRUE]
        ELSE [valid |-> TRUE, confidence |-> 60, issues |-> <<>>,
              suggestions |-> <<>>, called |-> TRUE]

\* if semantic_check["confidence"] <= 0.75
NeedsReviewAtThreshold(confidence) == confidence <= 75
\* if semantic_check["confidence"] < 0.75, in hundredths
NeedsReview(confidence) == confidence < 75

validate_submit_expense(db, now, amount, description, category, date, receipt_url, approval_id, reply) ==
    LET business_check == validate_business_rules(amount, category, date, now)
        semantic_check == validate_semantics(description, reply)
        judged == IF semantic_check.called THEN 1 ELSE 0
        rules == get_category_rules(category)
    IN  IF amount <= 0 \/ Len(description) < 1 \/ category \notin CATEGORIES_03 THEN
            \* Field(gt=0), Field(min_length=1), Literal: the call never
            \* reaches the handler
            Fault(db, 0)
        ELSE IF ~business_check.valid THEN
            Answer([status |-> "rejected", validation_layer |-> "business_rules",
                    message |-> business_check.error], db, 0)
        ELSE IF semantic_check.called /\ reply.kind = "api_error" THEN
            Fault(db, judged)
        ELSE IF ~semantic_check.valid THEN
            Answer([status |-> "rejected", validation_layer |-> "semantic",
                    issues |-> semantic_check.issues,
                    suggestions |-> semantic_check.suggestions], db, judged)
        ELSE IF NeedsReview(semantic_check.confidence) THEN
            LET c == db_create_expense(db, amount, category, description,
                                       "pending_review", date, receipt_url, approval_id)
            IN Answer([status |-> "pending_review", validation_layer |-> "human_review",
                       expense_id |-> c.made.id, expense_number |-> c.made.number,
                       confidence |-> semantic_check.confidence], c.db, judged)
        ELSE IF amount > rules.receipt_required_over /\ ~Truthy(receipt_url) THEN
            Answer([status |-> "needs_receipt", validation_layer |-> "passed",
                    category |-> category, amount |-> amount,
                    next_action |-> "upload_receipt",
                    next_action_params |->
                        [expense_amount |-> amount, expense_category |-> category]],
                   db, judged)
        ELSE IF amount > rules.approval_required_over /\ ~Truthy(approval_id) THEN
            Answer([status |-> "needs_approval", validation_layer |-> "passed",
                    category |-> category, amount |-> amount,
                    next_action |-> "request_approval",
                    next_action_params |->
                        [amount |-> amount, category |-> category,
                         description |-> description, receipt_url |-> receipt_url]],
                   db, judged)
        ELSE
            LET c == db_create_expense(db, amount, category, description,
                                       "approved", date, receipt_url, approval_id)
            IN Answer([status |-> "success", validation_layer |-> "all_passed",
                       expense_id |-> c.made.id, expense_number |-> c.made.number,
                       category |-> category, amount |-> amount,
                       validation_confidence |-> semantic_check.confidence],
                      c.db, judged)

----------------------------------------------------------------------------
(* The servers of 03-intelligence-budget, each with its own ledger, under   *)
(* calls about one expense: the fields of the expense and the reply the     *)
(* language model gives about it are fixed for a run, the receipt and the   *)
(* approval vary from call to call.                                         *)

SERVERS ==
    {"agent_heavy", "tool_heavy", "hybrid", "self_prompting",
     "scripted_orchestration", "validate_at_source"}

\* The tools registered with @mcp.tool() on a server.
Registered(server) ==
    CASE server = "agent_heavy" ->
            {"submit_expense", "get_category_rules", "upload_receipt", "request_approval"}
      [] server = "scripted_orchestration" ->
            {"execute_workflow", "submit_expense", "get_workflow_examples"}
      [] server = "validate_at_source" ->
            {"submit_expense", "upload_receipt", "request_approval", "test_validation"}
      [] OTHER -> {"submit_expense", "upload_receipt", "request_approval"}

Amounts03 == {0, 20, 60, 120, 600}

Descriptions03 == {"Team lunch downtown", "asdfgh", "something nice"}

\* Descriptions given to self_prompting_server.py
DescriptionsS == {"Team lunch downtown", "something nice", "Lunch at the hotel"}

ExpenseContext(has_client_involved, is_team_event, urgency) == [has_client_involved |-> has_client_involved, is_team_event |-> is_team_event, urgency |-> urgency]

Contexts == {EmptyDict, ExpenseContext(TRUE, FALSE, None), ExpenseContext(FALSE, TRUE, "urgent")}

ContextHints(mentions_client, mentions_team) == [mentions_client |-> mentions_client, mentions_team |-> mentions_team]

Hints == {EmptyDict, ContextHints(TRUE, FALSE), ContextHints(FALSE, TRUE)}

NoReply == [kind |-> "none"]

\* Replies of the language model to the classification prompt.
ClassifierReplies ==
    {[kind |-> "api_error"], [kind |-> "no_json"],
     [kind |-> "json", fields |-> [category |-> "meals", confidence |-> 95]],
     [kind |-> "json", fields |-> [category |-> "meals", confidence |-> 70]],
     [kind |-> "json", fields |-> [category |-> "meals", confidence |-> 69]],
     [kind |-> "json", fields |-> [category |-> "meals"]]}

\* Replies of the language model to the validation prompt.
JudgeReplies ==
    {[kind |-> "api_error"], [kind |-> "no_json"], [kind |-> "invalid_json"],
     [kind |-> "json", fields |-> [valid |-> TRUE, confidence |-> 90]],
     [kind |-> "json", fields |-> [valid |-> TRUE, confidence |-> 75]],
     [kind |-> "json", fields |-> [valid |-> TRUE, confidence |-> 74]],
     [kind |-> "json", fields |-> [valid |-> FALSE, confidence |-> 90]],
     [kind |-> "json", fields |-> [valid |-> TRUE]],
     [kind |-> "json", fields |-> EmptyDict]}

\* Descriptions given to validate_at_source_server.py
DescriptionsV ==
    {"Team lunch downtown", "asdfgh", " ASDFgh ", "stuff", "misc", "Team aaaaa lunch"}

Dates03 == {EmptyDict, BadDate, GoodDate(Today - 90)}

\* datetime.now(): the day, and whether midnight of that day has passed
Clocks == {[day |-> Today, late |-> FALSE], [day |-> Today, late |-> TRUE]}

\* The clocks of a run: only validate_at_source_server.py reads the clock,
\* and only once the date of the record is parsed.
ServerClocks(server, e) ==
    IF server = "validate_at_source" /\ e.date # EmptyDict /\ e.date.ok
    THEN Clocks
    ELSE {[day |-> Today, late |-> TRUE]}

Millis == {1, 2}

ReceiptUrls03 == {None, storage_upload_receipt(1).url}

ApprovalIds03 == {None, "apr_1"}

\* The expense a run is about, as the arguments of the server's submit_expense.
ServerSessions(server) ==
    LET Session(amount, category, description, flag, context, date, reply) ==
            [amount |-> amount, category |-> category, description |-> description,
             flag |-> flag, context |-> context, date |-> date, reply |-> reply]
    IN  CASE server = "tool_heavy" ->
                {Session(a, t, "Team lunch downtown", f, EmptyDict, EmptyDict, NoReply) :
                    a \in Amounts03, t \in {"meal", "travel", "hotel"}, f \in BOOLEAN}
          [] server \in {"agent_heavy", "scripted_orchestration"} ->
                {Session(a, c, "Team lunch downtown", FALSE, EmptyDict, EmptyDict, NoReply) :
                    a \in Amounts03, c \in {"meals", "software", "lodging"}}
          [] server = "hybrid" ->
                {Session(a, "meals", d, FALSE, x, EmptyDict, NoReply) :
                    a \in Amounts03, d \in Descriptions03, x \in Contexts}
          [] server = "self_prompting" ->
                {Session(a, "meals", d, FALSE, h, EmptyDict, r) :
                    a \in Amounts03, d \in DescriptionsS, h \in Hints,
                    r \in ClassifierReplies}
          [] server = "validate_at_source" ->
                {Session(a, c, d, FALSE, EmptyDict, t, r) :
                    a \in Amounts03, c \in {"meals", "lodging"}, d \in DescriptionsV,
                    t \in Dates03, r \in JudgeReplies}

\* submit_expense of the server, on the run's expense: the arguments the
\* signature names are bound, the idempotency key of the request is not one
ServerSubmit(server, db, now, e, receipt_url, approval_id) ==
    CASE server = "agent_heavy" ->
            agent_heavy_submit_expense(db, e.amount, e.category, e.description,
                                       receipt_url, approval_id)
      [] server = "tool_heavy" ->
            tool_heavy_submit_expense(db, e.amount, e.category, e.description, e.flag,
                                      receipt_url, approval_id)
      [] server = "hybrid" ->
            hybrid_submit_expense(db, e.amount, e.description, e.context,
                                  receipt_url, approval_id)
      [] server = "self_prompting" ->
            self_prompting_submit_expense(db, e.amount, e.description, e.context,
                                          receipt_url, approval_id, e.reply)
      [] server = "scripted_orchestration" ->
            scripted_submit_expense(db, e.amount, e.category, e.description,
                                    receipt_url, approval_id)
      [] server = "validate_at_source" ->
            validate_submit_expense(db, now, e.amount, e.description, e.category,
                                    e.date, receipt_url, approval_id, e.reply)

NoServerCall == [tool |-> None, raised |-> FALSE, resp |-> EmptyDict, judged |-> 0]

\* A call of a tool: the ledger before it is kept in before.
ServerCall(tool, r) ==
    srv' = [srv EXCEPT !.db = r.db, !.before = srv.db, !.calls = @ + 1,
                       !.last = [tool |-> tool, raised |-> r.raised, resp |-> r.resp,
                                 judged |-> r.judged]]

SrvSubmitExpense ==
    /\ srv.server \in SERVERS
    /\ srv.calls < MaxServerCalls
    /\ \E receipt_url \in ReceiptUrls03, approval_id \in ApprovalIds03 :
          ServerCall("submit_expense",
                     ServerSubmit(srv.server, srv.db, srv.now, srv.expense,
                                  receipt_url, approval_id))
    /\ UNCHANGED <<database, last, pre, sess, nCalls, caller, wf, scope, agent>>

SrvUploadReceipt ==
    /\ srv.server \in SERVERS
    /\ "upload_receipt" \in Registered(srv.server)
    /\ srv.calls < MaxServerCalls
    /\ \E ms \in Millis :
          ServerCall("upload_receipt",
                     IF srv.server = "agent_heavy"
                     THEN agent_heavy_upload_receipt(srv.db, ms)
                     ELSE upload_receipt_03(srv.db, ms))
    /\ UNCHANGED <<database, last, pre, sess, nCalls, caller, wf, scope, agent>>

SrvRequestApproval ==
    /\ srv.server \in SERVERS
    /\ "request_approval" \in Registered(srv.server)
    /\ srv.calls < MaxServerCalls
    /\ LET e == srv.expense
       IN ServerCall("request_approval",
                     IF srv.server = "agent_heavy"
                     THEN agent_heavy_request_approval(srv.db, e.amount, e.category,
                                                       e.description)
                     ELSE request_approval_03(srv.db, e.amount, e.category,
                                              e.description))
    /\ UNCHANGED <<database, last, pre, sess, nCalls, caller, wf, scope, agent>>

SrvGetCategoryRules ==
    /\ srv.server = "agent_heavy"
    /\ srv.calls < MaxServerCalls
    /\ ServerCall("get_category_rules", agent_heavy_get_category_rules(srv.db))
    /\ UNCHANGED <<database, last, pre, sess, nCalls, caller, wf, scope, agent>>

\* Every request of a run carries the idempotency key of the run.
InitServers ==
    /\ database = MockDatabase
    /\ pre = MockDatabase
    /\ last = NoCall
    /\ sess = IdleSession
    /\ nCalls = 0
    /\ caller = IdleCaller
    /\ wf = IdleWorkflow
    /\ scope = IdleScope
    /\ agent = IdleAgent
    /\ \E server \in SERVERS : \E e \in ServerSessions(server) :
       \E now \in ServerClocks(server, e), key \in IdempotencyKeys \ {None} :
          srv = [server |-> server, expense |-> e, now |-> now, key |-> key,
                 db |-> Database03,
                 before |-> Database03, calls |-> 0, last |-> NoServerCall]

NextServers ==
    \/ SrvSubmitExpense
    \/ SrvUploadReceipt
    \/ SrvRequestApproval
    \/ SrvGetCategoryRules

SpecServers == InitServers /\ [][NextServers]_vars

----------------------------------------------------------------------------
(* All the expense servers: a run is about the failing-forward server or    *)
(* about one server of 03-intelligence-budget.                              *)

InitAllServers == Init \/ InitServers

NextAllServers ==
    \/ srv = IdleServers /\ Next
    \/ NextServers

SpecAllServers == InitAllServers /\ [][NextAllServers]_vars

----------------------------------------------------------------------------
(* The control loops: run_agent of 02-failing-forward/code/expense_agent.py *)
(* and of 01-intro-to-mcp-agents/code/agent.py, and run_agent_loop of       *)
(* 03-intelligence-budget/code/test_all.py.  A decision is the list of      *)
(* operations the language model asks for: empty, it is the final answer.   *)
(* The loop reads no field of a tool's response; it appends the call and    *)
(* its output to the context.                                               *)

LOOPS == {"expense_agent", "agent", "test_all"}

\* max_iterations of the loop
max_iterations(loop) == IF loop = "test_all" THEN 8 ELSE 10

\* The operations a decision can name, and the statuses a response can carry.
Operations == {"submit_expense", "upload_receipt"}

Statuses == {"success", "failed", "needs_action", "error"}

Decisions == SeqsUpTo(Operations, MaxOps)

\* while iteration <= max_iterations
LoopContinuesOnceMore(loop, iteration) == iteration <= max_iterations(loop)
\* while iteration < max_iterations / for iteration in range(max_iterations)
LoopContinues(loop, iteration) == iteration < max_iterations(loop)

\* a loop that calls again the operation whose response is not a success
RestAfterRetry(pending, status) ==
    IF status = "success" THEN Tail(pending) ELSE pending
\* for function_call in function_calls: the next call is the next of the list
RestAfter(pending, status) == Tail(pending)

\* The call and its output as the two items appended to the context.
Observation(operation, status) ==
    <<[type |-> "function_call", name |-> operation],
      [type |-> "function_call_output", output |-> status]>>

\* a loop that puts the newest observation first
ObserveInFront(observed, operation, status) == Observation(operation, status) \o observed
\* input_messages.append(function_call); input_messages.append(output)
Observe(observed, operation, status) == observed \o Observation(operation, status)

\* if iteration >= max_iterations: print("(Reached maximum iterations)");
\* run_agent_loop of test_all.py reports nothing
ReportsMaximum(loop, iteration) ==
    loop # "test_all" /\ iteration >= max_iterations(loop)

\* The loop has left its body for the last time: what follows the loop runs.
AgentStop(a, final) ==
    [a EXCEPT !.state = "done", !.final = final, !.pending = <<>>,
              !.reached = ReportsMaximum(a.loop, a.iteration)]

\* One pass of the loop's head: the iteration is counted, the language model
\* is asked, and its decision is either the final answer or a list of calls.
AgentDecide ==
    /\ agent.state = "awaiting_decision"
    /\ \E decision \in Decisions :
          LET a == [agent EXCEPT !.iteration = @ + 1, !.decisions = @ + 1,
                                 !.requested = @ + Len(decision),
                                 !.cycle = [requested |-> decision, dispatched |-> <<>>,
                                            observed |-> <<>>]]
          IN agent' = IF decision = <<>>
                      THEN AgentStop(a, TRUE)
                      ELSE [a EXCEPT !.state = "dispatching", !.pending = decision]
    /\ UNCHANGED <<database, last, pre, sess, nCalls, caller, wf, scope, srv>>

\* One pass of the inner loop: the call is made and the call and its output
\* are appended to the context; after the last call of the list the outer
\* loop tests its condition.
AgentDispatch ==
    /\ agent.state = "dispatching"
    /\ \E status \in Statuses :
          LET rest == RestAfter(agent.pending, status)
              a == [agent EXCEPT !.pending = rest, !.dispatched = @ + 1,
                                 !.context = @ + 2, !.status = status,
                                 !.cycle.dispatched = Append(@, Head(agent.pending)),
                                 !.cycle.observed = Observe(@, Head(agent.pending), status)]
          IN agent' = IF rest # <<>> THEN a
                      ELSE IF LoopContinues(a.loop, a.iteration)
                           THEN [a EXCEPT !.state = "awaiting_decision"]
                           ELSE AgentStop(a, FALSE)
    /\ UNCHANGED <<database, last, pre, sess, nCalls, caller, wf, scope, srv>>

\* The request to the language model, json.loads of the arguments or
\* call_tool raises: nothing in the loop catches it.
AgentFault ==
    /\ agent.state \in {"awaiting_decision", "dispatching"}
    /\ agent' = [agent EXCEPT !.state = "raised"]
    /\ UNCHANGED <<database, last, pre, sess, nCalls, caller, wf, scope, srv>>

InitAgent ==
    /\ database = MockDatabase
    /\ pre = MockDatabase
    /\ last = NoCall
    /\ sess = IdleSession
    /\ nCalls = 0
    /\ caller = IdleCaller
    /\ wf = IdleWorkflow
    /\ scope = IdleScope
    /\ srv = IdleServers
    /\ \E loop \in LOOPS :
          agent = [loop |-> loop, state |-> "awaiting_decision", iteration |-> 0,
                   decisions |-> 0, requested |-> 0, dispatched |-> 0,
                   context |-> 1, pending |-> <<>>, status |-> None,
                   final |-> FALSE, reached |-> FALSE,
                   cycle |-> [requested |-> <<>>, dispatched |-> <<>>, observed |-> <<>>]]

NextAgent ==
    \/ AgentDecide
    \/ AgentDispatch
    \/ AgentFault

SpecAgent == InitAgent /\ [][NextAgent]_vars

----------------------------------------------------------------------------
(* A script in its scope: it names an object of restricted_globals and then *)
(* applies one operation after another to what it holds, as in              *)
(*   tools.get_expenses.__globals__["sys"].modules["os"]                     *)

\* The script names a key of restricted_globals.
ScriptName ==
    /\ scope.path = <<>>
    /\ \E o \in restricted_globals : scope' = [path |-> <<o>>]
    /\ UNCHANGED <<database, last, pre, sess, nCalls, caller, wf, agent, srv>>

\* The script applies an operation to the object it holds.
ScriptOperate ==
    /\ scope.path # <<>>
    /\ Len(scope.path) < MaxDepth
    /\ \E o \in Yields(scope.path[Len(scope.path)]) :
          scope' = [path |-> Append(scope.path, o)]
    /\ UNCHANGED <<database, last, pre, sess, nCalls, caller, wf, agent, srv>>

InitSandbox ==
    /\ database = MockDatabase
    /\ pre = MockDatabase
    /\ last = NoCall
    /\ sess = IdleSession
    /\ nCalls = 0
    /\ caller = IdleCaller
    /\ wf = IdleWorkflow
    /\ scope = IdleScope
    /\ agent = IdleAgent
    /\ srv = IdleServers

NextSandbox ==
    \/ ScriptName
    \/ ScriptOperate

SpecSandbox == InitSandbox /\ [][NextSandbox]_vars

----------------------------------------------------------------------------
(* Claims about the failing-forward server *)

LastIs(tool) == last.tool = tool /\ ~last.raised

LastStatus(status, error) == last.resp.status = status /\ last.resp.error = error

\* C1 (under SpecFollow).  A first submit_expense with an amount above 25 and
\* at most 100, a valid category, a date neither in the future nor more than
\* 90 days old and no receipt_url answers needs_action / receipt_required /
\* upload_receipt and creates no expense; the caller then calls upload_receipt
\* and submits the same fields again with the receipt_url it returned, and
\* that third call answers success with exactly one expense in the ledger.
C1_Pre ==
    /\ caller.state # "idle"
    /\ caller.start.amount > 25
    /\ caller.start.amount <= 100
    /\ caller.start.category \in {"meals", "Travel"}
    /\ caller.start.date.ok
    /\ caller.start.date.day <= Today
    /\ Today - caller.start.date.day <= 90
    /\ caller.start.receipt_url \in {None, ""}

C1_ReceiptRecovery ==
    C1_Pre =>
        /\ caller.calls <= 3
        /\ caller.state \in {"calling", "done"}
        /\ caller.calls = 1 =>
              /\ LastIs("submit_expense")
              /\ LastStatus("needs_action", "receipt_required")
              /\ last.resp.next_action = "upload_receipt"
              /\ database.expenses = <<>>
        /\ caller.calls = 2 =>
              /\ LastIs("upload_receipt")
              /\ LastStatus("success", None)
              /\ Len(database.receipts) = 1
              /\ database.expenses = <<>>
        /\ caller.calls = 3 =>
              /\ LastIs("submit_expense")
              /\ last.args = Merge([receipt_url |-> database.receipts[1].url],
                                   caller.start)
              /\ LastStatus("success", None)
              /\ Len(database.expenses) = 1
              /\ database.expenses[1].amount = caller.start.amount
              /\ database.expenses[1].receipt_url = database.receipts[1].url
              /\ caller.state = "done"

C1_Witness ==
    /\ C1_Pre
    /\ caller.calls = 3
    /\ caller.state = "done"
    /\ caller.start.amount = 100
    /\ Len(database.expenses) = 1

\* C2.  What the claim promises the caller: it is never stuck on an action it
\* cannot invoke, never fails, never runs out of calls, and its fifth call at
\* the latest is a submit_expense that answers success.
C2_Pre ==
    /\ caller.state # "idle"
    /\ caller.start.amount > 0
    /\ caller.start.category \in {"meals", "Travel"}
    /\ caller.start.date.ok
    /\ caller.start.date.day <= Today

C2_Recovers ==
    /\ caller.state \in {"calling", "done"}
    /\ caller.calls <= 5
    /\ caller.state = "calling" => caller.calls <= 4 /\ ENABLED FollowInvoke
    /\ caller.state = "done" =>
          LastIs("submit_expense") /\ LastStatus("success", None)

C2_AsksForLateReason ==
    /\ Today - caller.start.date.day > 90
    /\ caller.start.approval_id \in {None, ""}

C3_InvalidAmount ==
    (last.tool = "submit_expense" /\ last.args.amount <= 0) =>
        /\ ~last.raised
        /\ LastStatus("failed", "invalid_amount")
        /\ database = pre

C3_Witness ==
    /\ LastIs("submit_expense")
    /\ last.args.amount = 0
    /\ last.args.category = "food"
    /\ ~last.args.date.ok
    /\ last.args.approval_id = ApprovalId(1)
    /\ LastStatus("failed", "invalid_amount")
    /\ pre # MockDatabase

\* C4 (under Spec).  submit_expense for a record (an amount above zero) dated
\* after today answers failed / future_date whatever the category, receipt_url
\* and approval_id are, and creates no expense; a record dated today is never
\* answered future_date.
C4_FutureDate ==
    (last.tool = "submit_expense" /\ last.args.amount > 0 /\ last.args.date.ok) =>
        /\ last.args.date.day > Today =>
              /\ ~last.raised
              /\ LastStatus("failed", "future_date")
              /\ database = pre
        /\ last.args.date.day = Today => last.resp.error # "future_date"

C4_Witness ==
    /\ LastIs("submit_expense")
    /\ last.args.date.day = Today + 1
    /\ last.args.category = "food"
    /\ last.args.amount > 100
    /\ last.args.receipt_url = None
    /\ LastStatus("failed", "future_date")

\* C5 (under Spec).  submit_expense for a record (an amount above zero) dated
\* more than 90 days before today, with no approval_id, answers needs_action /
\* late_expense / request_late_expense_approval for every category and every
\* receipt_url, and creates no expense.
C5_LateExpense ==
    (/\ last.tool = "submit_expense"
     /\ last.args.amount > 0
     /\ last.args.date.ok
     /\ Today - last.args.date.day > 90
     /\ last.args.approval_id \in {None, ""})
        =>
        /\ ~last.raised
        /\ LastStatus("needs_action", "late_expense")
        /\ last.resp.next_action = "request_late_expense_approval"
        /\ database = pre

C5_Witness ==
    /\ LastIs("submit_expense")
    /\ Today - last.args.date.day = 91
    /\ last.args.category = "food"
    /\ last.args.receipt_url = ReceiptUrl(ReceiptId(1))
    /\ last.args.approval_id = None
    /\ LastStatus("needs_action", "late_expense")

\* The length of s without its leading and trailing blanks.
TrimmedLen(s) ==
    LET inked == {i \in DOMAIN s : s[i] # " "}
    IN IF inked = {} THEN 0
       ELSE (CHOOSE i \in inked : \A j \in inked : j <= i)
            - (CHOOSE i \in inked : \A j \in inked : i <= j) + 1

\* C6 (under Spec).  request_late_expense_approval with a late_reason of fewer
\* than 10 characters after trimming answers failed / reason_required and
\* creates no approval; with 10 or more it answers success and creates exactly
\* one approval, of type late_expense.
C6_LateReason ==
    last.tool = "request_late_expense_approval" =>
        /\ ~last.raised
        /\ IF TrimmedLen(last.args.late_reason) < 10
           THEN LastStatus("failed", "reason_required") /\ database = pre
           ELSE /\ LastStatus("success", None)
                /\ Len(database.approvals) = Len(pre.approvals) + 1
                /\ SubSeq(database.approvals, 1, Len(pre.approvals)) = pre.approvals
                /\ database.approvals[Len(database.approvals)].type = "late_expense"
                /\ database.expenses = pre.expenses
                /\ database.receipts = pre.receipts

C6_Witness ==
    /\ LastIs("request_late_expense_approval")
    /\ Len(last.args.late_reason) = 13
    /\ TrimmedLen(last.args.late_reason) = 9
    /\ LastStatus("failed", "reason_required")
    /\ Len(database.approvals) = 1

----------------------------------------------------------------------------
(* Claims about the workflow sandbox *)

C8_EveryCallReturns ==
    (WfActive /\ wf.elapsed >= WORKFLOW_TIMEOUT) => ENABLED WfAdvance

\* C9 (under SpecWorkflow).  Whatever fault compiling or running the script
\* raises, execute_workflow returns a response with status error, the fault
\* text in error and a hint; nothing is raised to its caller.
C9_FaultsCaught ==
    wf.fault # None =>
        /\ wf.phase = "returned"
        /\ wf.resp.status = "error"
        /\ wf.resp.error = wf.fault
        /\ wf.resp.hint

WfReturnedValue ==
    /\ wf.phase \in {"returned", "raised"}
    /\ wf.script.compiles
    /\ wf.pc = Len(wf.script.steps) + 1

\* C10 (under SpecWorkflow).  When the value the script returns is not
\* serializable to plain JSON (a set, an object, or a container holding one),
\* execute_workflow returns a response with status error: no success response
\* and no exception to the caller.
C10_NotSerializable ==
    (/\ WfReturnedValue
     /\ \/ wf.script.ret.kind \in {"set", "object"}
        \/ wf.script.ret.inner \in {"set", "object"})
        =>
        /\ wf.phase = "returned"
        /\ wf.resp.status = "error"
        /\ wf.resp.hint

C10_Witness ==
    /\ WfReturnedValue
    /\ wf.script.ret = Value("set", "int")
    /\ wf.created = 1
    /\ wf.resp.status = "error"

----------------------------------------------------------------------------
(* Claims about the scope of a script *)

\* C11 (under SpecSandbox).  Whatever operations a script applies, every
\* object it gets hold of is a binding, an allow-listed primitive or plain
\* data: never networking, the file system, process control or the server's
\* module scope.
C11_Isolated ==
    \A i \in DOMAIN scope.path :
        /\ Contained(scope.path[i])
        /\ ~Networking(scope.path[i])
        /\ ~FileSystem(scope.path[i])
        /\ ~ProcessControl(scope.path[i])
        /\ ~ServerScope(scope.path[i])

----------------------------------------------------------------------------
(* Claims about the responses of the failing-forward server *)

\* The actions a response names: next_action and those of alternative_actions.
NamedActions(resp) ==
    (IF resp.next_action # None THEN {resp.next_action} ELSE {})
        \cup {resp.alternative_actions[i].action : i \in DOMAIN resp.alternative_actions}

\* C12 (under Spec).  Every next_action and every alternative_actions[].action
\* of a returned response is the name of a tool registered on the server.
C12_ActionsRegistered ==
    (last.tool # None /\ ~last.raised) => NamedActions(last.resp) \subseteq ToolNames

\* C13 (under Spec).  When a response carries next_action_params, next_action
\* names a tool, every key of next_action_params is a parameter of that tool,
\* and every required parameter of the tool is among the keys.
C13_ParamsInvocable ==
    (last.tool # None /\ ~last.raised /\ last.resp.next_action_params # EmptyDict) =>
        /\ last.resp.next_action \in ToolNames
        /\ DOMAIN last.resp.next_action_params \subseteq Params(last.resp.next_action)
        /\ RequiredParams(last.resp.next_action) \subseteq DOMAIN last.resp.next_action_params

\* C14 (under Spec).  A returned response has next_action_params exactly when
\* it has next_action.
C14_ParamsIffAction ==
    (last.tool # None /\ ~last.raised) =>
        (last.resp.next_action_params # EmptyDict <=> last.resp.next_action # None)

\* C15 (under Spec).  Every call of submit_expense returns a response that has
\* a status; no call raises out of the handler.
C15_NeverRaises ==
    last.tool = "submit_expense" => (~last.raised /\ last.resp.status # None)

----------------------------------------------------------------------------
(* Claims about the responses of all the expense servers *)

\* The status of a response; agent_heavy_server.py writes success: true
\* instead of a status.
StatusOf(resp) ==
    IF "status" \in DOMAIN resp THEN resp.status
    ELSE IF "success" \in DOMAIN resp THEN "success"
    ELSE None

\* What a submit_expense call did to a ledger: the records it found are
\* untouched, and it added one record if it answered success or
\* pending_review, none otherwise (none either if it raised).
LedgerEffect(before, after, raised, status) ==
    LET n == Len(before)
        accepted == ~raised /\ status \in {"success", "pending_review"}
    IN  /\ Len(after) = n + (IF accepted THEN 1 ELSE 0)
        /\ SubSeq(after, 1, n) = before

\* C16 (under SpecAllServers).  A submit_expense call adds exactly one record
\* to the ledger when it answers success or pending_review, and adds none and
\* leaves every record as it was when it answers anything else.
C16_LedgerOnlyOnAcceptance ==
    /\ last.tool = "submit_expense" =>
            LedgerEffect(pre.expenses, database.expenses, last.raised, last.resp.status)
    /\ (srv # IdleServers /\ srv.last.tool = "submit_expense") =>
            LedgerEffect(srv.before.expenses, srv.db.expenses, srv.last.raised,
                         StatusOf(srv.last.resp))

\* A rejected call after an accepted one, in validate_at_source_server.py.
C16_Witness ==
    /\ srv # IdleServers
    /\ srv.server = "validate_at_source"
    /\ srv.last.tool = "submit_expense"
    /\ ~srv.last.raised
    /\ StatusOf(srv.last.resp) = "needs_receipt"
    /\ Len(srv.before.expenses) = 1
    /\ srv.before.expenses[1].status = "approved"
    /\ srv.db = srv.before

\* C17 (under SpecAllServers).  Every response with status failed has a
\* non-empty error code and a non-empty hint.
C17_FailedHasErrorAndHint ==
    /\ (last.tool # None /\ ~last.raised /\ last.resp.status = "failed") =>
            (Truthy(last.resp.error) /\ last.resp.hint)
    /\ (srv # IdleServers /\ ~srv.last.raised /\ StatusOf(srv.last.resp) = "failed") =>
            /\ Truthy(Get(srv.last.resp, "error"))
            /\ Truthy(Get(srv.last.resp, "hint"))

----------------------------------------------------------------------------
(* Claims about the control loops *)

\* C18 (under SpecAgent).  A run of run_agent that has left its loop either
\* exposed the final answer or reported "(Reached maximum iterations)", never
\* both: the maximum is reported only when no final answer was produced.
C18_OneTerminalOutcome ==
    (agent.state = "done" /\ agent.loop \in {"expense_agent", "agent"}) =>
        (agent.reached <=> ~agent.final)

\* C19 (under SpecAgent).  The loop asks for at most max_iterations decisions,
\* one per iteration; it leaves its body before the bound exactly when a
\* decision names no operation, and once the bound is used up it stops.
C19_BoundedDecisions ==
    /\ agent.decisions = agent.iteration
    /\ agent.decisions <= max_iterations(agent.loop)
    /\ agent.state = "awaiting_decision" => agent.decisions < max_iterations(agent.loop)
    /\ agent.final <=> (agent.state = "done" /\ agent.cycle.requested = <<>>)
    /\ (agent.state = "done" /\ ~agent.final) =>
            agent.decisions = max_iterations(agent.loop)

\* The bound is reached with every decision naming operations.
C19_Witness ==
    /\ agent.loop = "expense_agent"
    /\ agent.state = "done"
    /\ ~agent.final
    /\ agent.decisions = 10
    /\ agent.dispatched > agent.decisions

\* C20 (under SpecAgent).  The loop never repeats a call: the calls made in a
\* cycle are the first operations of the decision, in its order, each once,
\* whatever the statuses; when the cycle is over they are all of them, and
\* over a run the calls made number the operations requested.
C20_NoRetry ==
    /\ \E n \in 0..Len(agent.cycle.requested) :
            agent.cycle.dispatched = SubSeq(agent.cycle.requested, 1, n)
    /\ agent.state \in {"awaiting_decision", "done"} =>
            /\ agent.cycle.dispatched = agent.cycle.requested
            /\ agent.dispatched = agent.requested

\* A cycle of two calls is over, the last answered failed.
C20_Witness ==
    /\ agent.state = "awaiting_decision"
    /\ Len(agent.cycle.requested) = 2
    /\ agent.cycle.dispatched = agent.cycle.requested
    /\ agent.status = "failed"
    /\ agent.dispatched = 4

----------------------------------------------------------------------------
(* Claims about the validation pipeline of validate_at_source_server.py *)

\* The last call was submit_expense of validate_at_source_server.py.
ValidateSubmitted ==
    /\ srv # IdleServers
    /\ srv.server = "validate_at_source"
    /\ srv.last.tool = "submit_expense"

\* The request passes the schema of submit_expense (Field(gt=0),
\* Field(min_length=1), Literal) and the business rules.
ReachesSemantics(e, now) ==
    /\ e.amount > 0
    /\ Len(e.description) >= 1
    /\ e.category \in CATEGORIES_03
    /\ validate_business_rules(e.amount, e.category, e.date, now).valid

\* The text is one run of five or more letters.
IsLetterRun(text) ==
    /\ Len(text) >= 5
    /\ \A i \in 1..Len(text) : Contains("abcdefghijklmnopqrstuvwxyzABCDEFGHIJKLMNOPQRSTUVWXYZ", CharAt(text, i))

PatternIssues == <<"Description appears to be placeholder or test text">>

WordCountIssues == <<"Description is too brief for audit purposes">>

\* The response is a rejection at the semantic layer with the given issues.
RejectedSemantic(call, issues) ==
    /\ ~call.raised
    /\ StatusOf(call.resp) = "rejected"
    /\ call.resp.validation_layer = "semantic"
    /\ call.resp.issues = issues

\* C21 (under SpecServers).  submit_expense of validate_at_source_server.py
\* on a description whose trimmed text is one run of five or more letters
\* asks the language model nothing and creates no record, and when the
\* request has passed the schema and the business rules it is rejected at
\* the semantic layer with the verdict of the pattern check.
C21_LetterRunRejected ==
    (ValidateSubmitted /\ IsLetterRun(StripText(srv.expense.description))) =>
        /\ srv.last.judged = 0
        /\ srv.db = srv.before
        /\ ReachesSemantics(srv.expense, srv.now) =>
                RejectedSemantic(srv.last, PatternIssues)

\* An upper-case run with blanks around it is rejected by the pattern check.
C21_Witness ==
    /\ ValidateSubmitted
    /\ srv.expense.description = " ASDFgh "
    /\ srv.expense.amount = 20
    /\ RejectedSemantic(srv.last, PatternIssues)
    /\ srv.last.judged = 0

\* C22 (under SpecServers).  A description of fewer than two words, on a
\* request that has passed the schema and the business rules, is rejected at
\* the semantic layer with the verdict of the word-count check, and the
\* language model is asked nothing.
C22_BriefRejectedByWordCount ==
    (/\ ValidateSubmitted
     /\ WordCount(StripText(srv.expense.description)) < 2
     /\ ReachesSemantics(srv.expense, srv.now)) =>
        /\ RejectedSemantic(srv.last, WordCountIssues)
        /\ srv.last.judged = 0

\* The verdict of the semantic layer on the expense of the run.
SemanticVerdict == validate_semantics(srv.expense.description, srv.expense.reply)

\* The request reached the semantic layer and the layer gave a verdict (the
\* language model, if asked, replied).
HasSemanticVerdict ==
    /\ ValidateSubmitted
    /\ ReachesSemantics(srv.expense, srv.now)
    /\ ~(SemanticVerdict.called /\ srv.expense.reply.kind = "api_error")

\* The records the last call added to the ledger.
Added == SubSeq(srv.db.expenses, Len(srv.before.expenses) + 1, Len(srv.db.expenses))

\* C23 (under SpecServers).  A record that passes the business and semantic
\* layers with confidence below 0.75 is persisted as pending_review and
\* answered pending_review; with confidence 0.75 or more no pending_review
\* record is persisted.
C23_PendingReviewBelowThreshold ==
    HasSemanticVerdict =>
        /\ (SemanticVerdict.valid /\ SemanticVerdict.confidence < 75) =>
                /\ ~srv.last.raised
                /\ StatusOf(srv.last.resp) = "pending_review"
                /\ Len(Added) = 1
                /\ Added[1].status = "pending_review"
                /\ Added[1].amount = srv.expense.amount
                /\ Added[1].description = srv.expense.description
        /\ SemanticVerdict.confidence >= 75 =>
                /\ StatusOf(srv.last.resp) # "pending_review"
                /\ \A i \in 1..Len(Added) : Added[i].status # "pending_review"

\* Confidence 0.74 on an expense that would need a receipt.
C23_Witness ==
    /\ HasSemanticVerdict
    /\ SemanticVerdict.called
    /\ SemanticVerdict.confidence = 74
    /\ srv.expense.amount = 60
    /\ StatusOf(srv.last.resp) = "pending_review"
    /\ Len(srv.before.expenses) = 1
    /\ Len(srv.db.expenses) = 2

----------------------------------------------------------------------------
(* Claims about self_prompting_server.py and the amount check *)

SelfPromptingSubmitted ==
    /\ srv # IdleServers
    /\ srv.server = "self_prompting"
    /\ srv.last.tool = "submit_expense"

\* The classification of the expense of the run.
Classification ==
    classify_expense_with_fallback(srv.expense.description, srv.expense.context,
                                   srv.expense.reply)

\* C24 (under SpecServers).  In self_prompting_server.py a classification
\* with confidence below 0.7, from any layer and from the fallback for an
\* unparseable reply too, makes submit_expense answer needs_clarification
\* and create no expense.
C24_LowConfidenceAsks ==
    (/\ SelfPromptingSubmitted
     /\ ~(Classification.called /\ srv.expense.reply.kind = "api_error")
     /\ Classification.confidence < 70) =>
        /\ ~srv.last.raised
        /\ StatusOf(srv.last.resp) = "needs_clarification"
        /\ srv.db = srv.before

\* The language model answers meals with confidence 0.69 for an amount that
\* needs nothing else.
C24_Witness ==
    /\ SelfPromptingSubmitted
    /\ Classification.called
    /\ srv.expense.reply.kind = "json"
    /\ Classification.confidence = 69
    /\ srv.expense.amount = 20
    /\ StatusOf(srv.last.resp) = "needs_clarification"
    /\ srv.last.resp.suggested_category = "meals"

----------------------------------------------------------------------------
(* Claims about the ledger of 03-intelligence-budget *)

\* receipt_required_over <= approval_required_over <= max_amount
RulesOrdered(rules) ==
    /\ rules.receipt_required_over <= rules.approval_required_over
    /\ rules.approval_required_over <= rules.max_amount

\* C25 (under SpecServers).  In the rule table of the ledger, in the rules
\* handed out for a category outside the table, and in the table that
\* get_category_rules answers with, receipt_required_over <=
\* approval_required_over <= max_amount for every category.
C25_RulesOrdered ==
    /\ \A category \in CATEGORIES_03 \cup {"lodging", "unknown"} :
            RulesOrdered(get_category_rules(category))
    /\ (srv # IdleServers /\ srv.last.tool = "get_category_rules") =>
            \A category \in DOMAIN srv.last.resp.categories :
                RulesOrdered(srv.last.resp.categories[category])

\* get_category_rules of agent_heavy_server.py has answered with the table.
C25_Witness ==
    /\ srv # IdleServers
    /\ srv.last.tool = "get_category_rules"
    /\ DOMAIN srv.last.resp.categories = CATEGORIES_03
    /\ srv.last.resp.categories["software"].receipt_required_over = 0

\* Two ledger records have the same content: they agree on every field but
\* the identifiers the ledger gave them.
SameContent(a, b) ==
    \A k \in DOMAIN a \ {"id", "number"} : a[k] = b[k]

\* No two records of the ledger have the same content.
NoDuplicates(expenses) ==
    \A i, j \in 1..Len(expenses) : (i < j) => ~SameContent(expenses[i], expenses[j])

\* C26 (under SpecAllServers).  When the caller sends an idempotency key
\* with its submit_expense requests, two accepted requests of identical
\* content leave one ledger entry for the record, not two.
C26_Idempotent ==
    /\ sess.key # None => NoDuplicates(database.expenses)
    /\ (srv # IdleServers /\ srv.key # None) => NoDuplicates(srv.db.expenses)

\* C27 (under SpecServers).  submit_expense of hybrid_server.py,
\* self_prompting_server.py and scripted_orchestration_server.py answers an
\* amount of zero or less with status failed and error invalid_amount,
\* whatever the description, the hints and the category.
C27_InvalidAmount03 ==
    (/\ srv # IdleServers
     /\ srv.server \in {"hybrid", "self_prompting", "scripted_orchestration"}
     /\ srv.last.tool = "submit_expense"
     /\ srv.expense.amount <= 0) =>
        /\ ~srv.last.raised
        /\ StatusOf(srv.last.resp) = "failed"
        /\ Get(srv.last.resp, "error") = "invalid_amount"

----------------------------------------------------------------------------
(* Claims about the context of the control loops *)

\* C28 (under SpecAgent).  In a cycle the operations are dispatched one at a
\* time in the order of the decision, and whenever the loop is about to make
\* its next call or to ask for its next decision the context holds, for every
\* call made so far in the cycle and in the order of the calls, the call
\* followed by its output; over the run it holds the task and one such pair
\* per call.
C28_ObservedInOrder ==
    LET c == agent.cycle
        n == Len(c.dispatched)
    IN  /\ n <= Len(c.requested)
        /\ c.dispatched = SubSeq(c.requested, 1, n)
        /\ Len(c.observed) = 2 * n
        /\ \A k \in 1..n :
                /\ c.observed[2 * k - 1] = [type |-> "function_call", name |-> c.dispatched[k]]
                /\ c.observed[2 * k].type = "function_call_output"
        /\ n > 0 => c.observed[2 * n].output = agent.status
        /\ agent.context = 1 + 2 * agent.dispatched
        /\ agent.state = "dispatching" => agent.pending = SubSeq(c.requested, n + 1, Len(c.requested))

\* A cycle of two different calls is over: the first answered failed, the
\* second success.
C28_Witness ==
    /\ agent.state = "awaiting_decision"
    /\ agent.cycle.requested = <<"submit_expense", "upload_receipt">>
    /\ agent.cycle.observed =
            Observation("submit_expense", "failed") \o Observation("upload_receipt", "success")

----------------------------------------------------------------------------
(* Claims about the judgment call of validate_at_source_server.py *)

\* The response names the layer that ended the call.
EndedAt(layer) ==
    /\ ~srv.last.raised
    /\ srv.last.resp.validation_layer = layer

\* C29 (under SpecServers).  A submit_expense call of
\* validate_at_source_server.py that reaches the handler asks the language
\* model at most once: not at all when the business rules reject the record
\* or when a gibberish pattern or the word count rejects the description,
\* once otherwise.  The business rules come before the description, the
\* description before the escalation, the escalation before the receipt and
\* the approval, and a rejecting layer ends the call with the ledger as it
\* was.
C29_OneJudgment ==
    LET e == srv.expense
        handled == e.amount > 0 /\ Len(e.description) >= 1 /\ e.category \in CATEGORIES_03
        business == validate_business_rules(e.amount, e.category, e.date, srv.now).valid
        text == StripText(e.description)
        heuristic == MatchesGibberish(text) \/ WordCount(text) < 2
    IN  ValidateSubmitted =>
            /\ srv.last.judged \in {0, 1}
            /\ ~handled => srv.last.raised /\ srv.last.judged = 0
            /\ (handled /\ ~business) =>
                    /\ EndedAt("business_rules")
                    /\ StatusOf(srv.last.resp) = "rejected"
                    /\ srv.last.judged = 0
            /\ (handled /\ business /\ heuristic) =>
                    /\ EndedAt("semantic")
                    /\ StatusOf(srv.last.resp) = "rejected"
                    /\ srv.last.judged = 0
            /\ (handled /\ business /\ ~heuristic) => srv.last.judged = 1
            /\ (~srv.last.raised /\ StatusOf(srv.last.resp) = "rejected") =>
                    srv.db = srv.before
            /\ (~srv.last.raised /\ StatusOf(srv.last.resp) \in {"needs_receipt", "needs_approval", "success"}) =>
                    /\ srv.last.judged = 1
                    /\ SemanticVerdict.valid
                    /\ SemanticVerdict.confidence >= 75

\* The language model is asked once and rejects the description.
C29_Witness ==
    /\ ValidateSubmitted
    /\ srv.last.judged = 1
    /\ EndedAt("semantic")
    /\ StatusOf(srv.last.resp) = "rejected"
    /\ srv.expense.description = "Team lunch downtown"

\* The reply of the language model is not a JSON object with the fields
\* valid and confidence.
MalformedReply(reply) ==
    \/ reply.kind \in {"no_json", "invalid_json"}
    \/ reply.kind = "json" /\ ~({"valid", "confidence"} \subseteq DOMAIN reply.fields)

\* C30 (under SpecServers).  A malformed or unparseable judgment is taken as
\* valid with confidence 0.6: the record is persisted as pending_review and
\* answered pending_review, never accepted.
C30_MalformedEscalates ==
    (/\ HasSemanticVerdict
     /\ SemanticVerdict.called
     /\ MalformedReply(srv.expense.reply)) =>
        /\ ~srv.last.raised
        /\ StatusOf(srv.last.resp) = "pending_review"
        /\ srv.last.resp.confidence = 60
        /\ Len(Added) = 1
        /\ Added[1].status = "pending_review"

\* The text holds five or more identical characters in a row.
HasRepeatedRun(text) ==
    \E i \in 1..(Len(text) - 4) : \A j \in (i + 1)..(i + 4) : CharAt(text, j) = CharAt(text, i)

\* C31 (under SpecServers).  A description with a run of five or more
\* identical characters, wherever the run is, on a request that has passed
\* the schema and the business rules, is rejected by the pattern check and
\* the language model is asked nothing.
C31_RepeatedRunRejected ==
    (/\ ValidateSubmitted
     /\ HasRepeatedRun(srv.expense.description)
     /\ ReachesSemantics(srv.expense, srv.now)) =>
        /\ RejectedSemantic(srv.last, PatternIssues)
        /\ srv.last.judged = 0

----------------------------------------------------------------------------
(* Claims about the prerequisites of a persisted expense *)

\* The record has the receipt and the approval its amount calls for under
\* the rules of its category.
HasPrerequisites(expense) ==
    LET rules == get_category_rules(expense.category)
    IN  /\ expense.amount > rules.receipt_required_over => Truthy(expense.receipt_url)
        /\ expense.amount > rules.approval_required_over => Truthy(expense.approval_id)

\* C32 (under SpecServers).  submit_expense of validate_at_source_server.py
\* persists no expense above its category's receipt threshold without a
\* receipt_url nor above its approval threshold without an approval_id,
\* records persisted as pending_review included.
C32_PrerequisitesChecked ==
    (srv # IdleServers /\ srv.server = "validate_at_source") =>
        \A i \in 1..Len(srv.db.expenses) : HasPrerequisites(srv.db.expenses[i])

\* The parameters hold the value under one of the names.
Carried(params, names, value) ==
    \E k \in names \cap DOMAIN params : params[k] = value

\* The parameters hold the amount, the category and the description.
CarriesRecord(params, amount, category, description) ==
    /\ Carried(params, {"amount", "expense_amount"}, amount)
    /\ Carried(params, {"category", "expense_category"}, category)
    /\ Carried(params, {"description", "expense_description"}, description)

\* C33 (under SpecAllServers).  Every response of submit_expense that asks
\* for a receipt or for an approval has next_action_params holding the
\* amount, the category (in the lower case the server keeps it in) and the
\* description of the request.
C33_ParamsCarryRecord ==
    /\ (/\ last.tool = "submit_expense"
        /\ ~last.raised
        /\ last.resp.error \in {"receipt_required", "approval_required"}) =>
            CarriesRecord(last.resp.next_action_params, last.args.amount,
                          Lower(last.args.category), last.args.description)
    /\ (/\ srv # IdleServers
        /\ srv.last.tool = "submit_expense"
        /\ ~srv.last.raised
        /\ StatusOf(srv.last.resp) \in {"needs_receipt", "needs_approval"}) =>
            /\ "next_action_params" \in DOMAIN srv.last.resp
            /\ CarriesRecord(srv.last.resp.next_action_params, srv.expense.amount,
                             srv.last.resp.category, srv.expense.description)

----------------------------------------------------------------------------
(* Claims about the classification resolver of self_prompting_server.py *)

\* A hint rule applies: the caller's hint is set and the description names food.
HintRule(hint) ==
    /\ srv.expense.context # EmptyDict
    /\ srv.expense.context[hint] = TRUE
    /\ \E w \in {"lunch", "dinner", "breakfast", "meal", "restaurant", "coffee"} :
            Contains(StrLower(srv.expense.description), w)

\* The keywords of a keyword rule occur as words in the description.
KeywordRule(words) == SearchWord(StrLower(srv.expense.description), words)

TravelWords == {"flight", "airline", "hotel", "airbnb", "uber", "lyft", "taxi", "rental car", "train"}

SoftwareWords == {"software", "subscription", "license", "saas", "app"}

SuppliesWords == {"supplies", "equipment", "office", "furniture", "desk", "chair"}

\* The category the hint and keyword rules give, None when none applies.
RuleCategory ==
    IF HintRule("mentions_client") THEN "client_entertainment"
    ELSE IF HintRule("mentions_team") THEN "team_meals"
    ELSE IF KeywordRule(TravelWords) THEN "travel"
    ELSE IF KeywordRule(SoftwareWords) THEN "software"
    ELSE IF KeywordRule(SuppliesWords) THEN "supplies"
    ELSE None

\* C34 (under SpecServers).  The resolver of self_prompting_server.py tries
\* the hint rules, then the keyword rules, then the language model: the
\* model is asked at most once in a submit_expense, and only when no hint
\* rule and no keyword rule applies; a category resolved by a rule is the
\* one of the first rule that applies, whatever the model would reply.
C34_AscendingCost ==
    SelfPromptingSubmitted =>
        LET rule == RuleCategory
        IN  /\ srv.last.judged = (IF rule = None THEN 1 ELSE 0)
            /\ (~srv.last.raised /\ "classification_source" \in DOMAIN srv.last.resp) =>
                    (srv.last.resp.classification_source = "deterministic") <=> (rule # None)
            /\ (~srv.last.raised /\ rule # None /\ "category" \in DOMAIN srv.last.resp) =>
                    srv.last.resp.category = rule
            /\ (rule # None) => ~srv.last.raised

\* The client hint decides a description that a keyword rule matches too.
C34_Witness ==
    /\ SelfPromptingSubmitted
    /\ HintRule("mentions_client")
    /\ KeywordRule(TravelWords)
    /\ srv.last.judged = 0
    /\ StatusOf(srv.last.resp) = "success"
    /\ srv.last.resp.category = "client_entertainment"
    /\ srv.last.resp.classification_source = "deterministic"

----------------------------------------------------------------------------
(* Claims about the thresholds of validate_at_source_server.py *)

\* C35 (under SpecServers).  submit_expense of validate_at_source_server.py
\* rejects a record without a date at the business-rule layer exactly when
\* its amount is greater than the max_amount of its category in the rule
\* table of the ledger.
C35_LimitsFromRuleTable ==
    (/\ ValidateSubmitted
     /\ ~srv.last.raised
     /\ srv.expense.date = EmptyDict) =>
        (/\ StatusOf(srv.last.resp) = "rejected"
         /\ srv.last.resp.validation_layer = "business_rules")
            <=> (srv.expense.amount > get_category_rules(srv.expense.category).max_amount)

----------------------------------------------------------------------------
(* Claims about the age of a record *)

\* The date is more than 90 days before today.
MoreThan90DaysBefore(day, today) == today - day > 90

\* C36 (under SpecAllServers).  In submit_expense of expense_server.py (called
\* without an approval_id) and of validate_at_source_server.py, a record that
\* reaches the age check is treated as too old exactly when its date is more
\* than 90 days before today, whatever the time of day: a record dated
\* exactly 90 days before today passes.
C36_TooOldAfter90Days ==
    /\ (/\ last.tool = "submit_expense"
        /\ ~last.raised
        /\ ~AmountInvalid(last.args.amount)
        /\ last.args.date.ok
        /\ ~IsFuture(last.args.date.day, Today)
        /\ ~Truthy(last.args.approval_id)) =>
            (LastStatus("needs_action", "late_expense")
                <=> MoreThan90DaysBefore(last.args.date.day, Today))
    /\ (/\ ValidateSubmitted
        /\ ~srv.last.raised
        /\ srv.expense.date # EmptyDict
        /\ srv.expense.date.ok
        /\ srv.expense.date.day <= srv.now.day
        /\ srv.expense.amount <= category_limits[srv.expense.category]) =>
            (/\ StatusOf(srv.last.resp) = "rejected"
             /\ srv.last.resp.validation_layer = "business_rules")
                <=> MoreThan90DaysBefore(srv.expense.date.day, srv.now.day)

----------------------------------------------------------------------------
(* Claims about the approval of a persisted record *)

\* The approval records of the ledger that answer for an approval_id.
ApprovedRecords(approvals, approval_id) ==
    {i \in DOMAIN approvals : /\ approvals[i].id = approval_id
                              /\ approvals[i].status = "approved"}

\* The kinds of approval the record of the last submit_expense of
\* expense_server.py needs.
KindsRequired ==
    (IF last.args.amount > APPROVAL_THRESHOLD THEN {"large_expense"} ELSE {})
        \cup (IF DaysSince(last.args.date.day, Today) > LATE_EXPENSE_DAYS
              THEN {"late_expense"} ELSE {})

\* C37 (under SpecAllServers).  A record that needs approval (in
\* expense_server.py an amount above the approval threshold or a date more
\* than 90 days old, in tool_heavy_server.py an amount above the category's
\* approval_required_over) is persisted by submit_expense only if its
\* approval_id is the id of an approval record of the ledger whose status is
\* approved and, in expense_server.py, whose type is one the record needs.
C37_ApprovedRecordRequired ==
    /\ (/\ last.tool = "submit_expense"
        /\ ~last.raised
        /\ Len(database.expenses) > Len(pre.expenses)
        /\ KindsRequired # {}) =>
            \E i \in ApprovedRecords(pre.approvals, last.args.approval_id) :
                pre.approvals[i].type \in KindsRequired
    /\ (/\ srv # IdleServers
        /\ srv.server = "tool_heavy"
        /\ srv.last.tool = "submit_expense"
        /\ Len(Added) > 0
        /\ srv.expense.amount >
              get_category_rules(tool_heavy_category(srv.expense.category,
                                                     srv.expense.flag)).approval_required_over) =>
            \A i \in DOMAIN Added :
                ApprovedRecords(srv.before.approvals, Added[i].approval_id) # {}

----------------------------------------------------------------------------
(* Claims about the order of the rules of expense_server.py *)

\* The rules the arguments of the last submit_expense violate, as the errors
\* that name them.
Violated ==
    LET a == last.args
    IN  (IF a.amount <= 0 THEN {"invalid_amount"} ELSE {})
        \cup (IF a.date.ok /\ a.date.day > Today THEN {"future_date"} ELSE {})
        \cup (IF a.date.ok /\ Today - a.date.day > 90 /\ a.approval_id \in {None, ""}
              THEN {"late_expense"} ELSE {})
        \cup (IF ~InList(Lower(a.category), VALID_CATEGORIES)
              THEN {"invalid_category"} ELSE {})
        \cup (IF a.amount > 25 /\ a.receipt_url \in {None, ""}
              THEN {"receipt_required"} ELSE {})
        \cup (IF a.amount > 100 /\ a.approval_id \in {None, ""}
              THEN {"approval_required"} ELSE {})

RuleOrder ==
    <<"invalid_amount", "future_date", "late_expense", "invalid_category",
      "receipt_required", "approval_required">>

\* The first rule of the order that is violated, None when none is.
FirstViolated ==
    IF Violated = {} THEN None
    ELSE RuleOrder[CHOOSE i \in DOMAIN RuleOrder :
                        /\ RuleOrder[i] \in Violated
                        /\ \A j \in 1..(i - 1) : RuleOrder[j] \notin Violated]

\* C38 (under Spec).  A submit_expense of expense_server.py whose date parses,
\* or whose amount is not positive, answers with the error of the first rule
\* its arguments violate in the order amount, future date, late expense,
\* invalid category, missing receipt, missing approval, and with success when
\* they violate none.
C38_FirstViolatedRule ==
    (/\ last.tool = "submit_expense"
     /\ last.args.date.ok \/ last.args.amount <= 0) =>
        /\ ~last.raised
        /\ last.resp.error = FirstViolated
        /\ (last.resp.status = "success") <=> (Violated = {})

\* A late record with an unknown category, no receipt and no approval is
\* answered late_expense.
C38_Witness ==
    /\ LastIs("submit_expense")
    /\ Violated = {"late_expense", "invalid_category", "receipt_required",
                   "approval_required"}
    /\ last.resp.error = "late_expense"

\* A record above both thresholds without receipt and approval is asked for
\* the receipt.
C38_WitnessReceipt ==
    /\ LastIs("submit_expense")
    /\ Violated = {"receipt_required", "approval_required"}
    /\ last.resp.error = "receipt_required"

----------------------------------------------------------------------------
(* Claims about the ledger after a failed workflow *)

\* C39 (under SpecWorkflow).  When execute_workflow answers with status error
\* or timeout, the ledger is as it was before the run: no expense a binding
\* of the script created remains in it.
C39_FailedRunLeavesLedger ==
    (/\ wf.phase = "returned"
     /\ wf.resp.status \in {"error", "timeout"}) =>
        wf.created = 0

----------------------------------------------------------------------------
(* Claims about the ids of the ledgers *)

\* The ids of the records are pairwise distinct.
DistinctIds(records) ==
    \A i, j \in DOMAIN records : i # j => records[i].id # records[j].id

\* The records of before are still there, unchanged.
Kept(before, after) ==
    /\ Len(before) <= Len(after)
    /\ SubSeq(after, 1, Len(before)) = before

\* The ledger of expense_server.py after a step.
LedgerSound02 ==
    /\ DistinctIds(database'.expenses)
    /\ DistinctIds(database'.approvals)
    /\ DistinctIds(database'.receipts)
    /\ Len(database'.expenses) = database'.expense_counter - 1
    /\ Kept(database.expenses, database'.expenses)
    /\ Kept(database.approvals, database'.approvals)
    /\ Kept(database.receipts, database'.receipts)

\* The ledger of a server of 03-intelligence-budget after a step, and the
\* receipt ids its storage gave out in two calls in a row.
LedgerSound03 ==
    (srv # IdleServers) =>
        /\ DistinctIds(srv'.db.expenses)
        /\ DistinctIds(srv'.db.approvals)
        /\ Len(srv'.db.expenses) = srv'.db.expense_counter - 1
        /\ Kept(srv.db.expenses, srv'.db.expenses)
        /\ Kept(srv.db.approvals, srv'.db.approvals)
        /\ (/\ srv.last.tool = "upload_receipt"
            /\ srv'.last.tool = "upload_receipt"
            /\ srv'.calls = srv.calls + 1) =>
                srv'.last.resp.receipt_id # srv.last.resp.receipt_id

\* C40 (under SpecAllServers).  After every tool call the expense ids of the
\* ledger are pairwise distinct, and so are the approval ids and the receipt
\* ids; the records that were there are still there, unchanged; and the
\* number of expenses is the expense counter minus one.
C40_LedgerIds == [][LedgerSound02 /\ LedgerSound03]_vars

\* The same, for the ledger of expense_server.py alone.
C40_LedgerIds02 == [][LedgerSound02]_vars

====
